---- MODULE Spec2Model ----
(***************************************************************************)
(* rllvm: the compiler-driver argument classifier (CompilerArgsInfo), the *)
(* wrapper driver (CompilerWrapper::run) and the embedding and extraction  *)
(* of bitcode paths in object files (file_utils.rs) as state machines.     *)
(***************************************************************************)
EXTENDS Integers, Sequences, FiniteSets, TLC

(***************************************************************************)
(* Bounds                                                                  *)
(***************************************************************************)
\* longest argv drawn for the classifier
MaxArgs == 3
\* most input sources drawn for a driver invocation
MaxInputs == 2
\* largest exit code a subprocess returns
MaxExitCode == 2

(***************************************************************************)
(* Tokens.  A token is a string; Chars gives its spelling, which the       *)
(* regular expressions of arg_patterns() are matched against.              *)
(***************************************************************************)
Chars ==
  [ t \in { "-c", "-o", "-I", "-l", "--sysroot", "-m64", "-dead_strip", "-P",
            "--param", "-Wl,--start-group", "-Wl,--end-group", "-Wl,-z",
            "-flto=thin", "a.c", "b.o", "prog",
            "-emit-llvm", "-flto", "-S", "-E", "-", "-M", "x.s", "m.bc",
            "out" } |->
    CASE t = "-c"                -> <<"-", "c">>
      [] t = "-o"                -> <<"-", "o">>
      [] t = "-I"                -> <<"-", "I">>
      [] t = "-l"                -> <<"-", "l">>
      [] t = "--sysroot"         -> <<"-", "-", "s", "y", "s", "r", "o", "o", "t">>
      [] t = "-m64"              -> <<"-", "m", "6", "4">>
      [] t = "-dead_strip"       -> <<"-", "d", "e", "a", "d", "_", "s", "t", "r", "i", "p">>
      [] t = "-P"                -> <<"-", "P">>
      [] t = "--param"           -> <<"-", "-", "p", "a", "r", "a", "m">>
      [] t = "-Wl,--start-group" -> <<"-", "W", "l", ",", "-", "-", "s", "t", "a", "r", "t",
                                      "-", "g", "r", "o", "u", "p">>
      [] t = "-Wl,--end-group"   -> <<"-", "W", "l", ",", "-", "-", "e", "n", "d",
                                      "-", "g", "r", "o", "u", "p">>
      [] t = "-Wl,-z"            -> <<"-", "W", "l", ",", "-", "z">>
      [] t = "-flto=thin"        -> <<"-", "f", "l", "t", "o", "=", "t", "h", "i", "n">>
      [] t = "a.c"               -> <<"a", ".", "c">>
      [] t = "b.o"               -> <<"b", ".", "o">>
      [] t = "prog"              -> <<"p", "r", "o", "g">>
      [] t = "-emit-llvm"        -> <<"-", "e", "m", "i", "t", "-", "l", "l", "v", "m">>
      [] t = "-flto"             -> <<"-", "f", "l", "t", "o">>
      [] t = "-S"                -> <<"-", "S">>
      [] t = "-E"                -> <<"-", "E">>
      [] t = "-"                 -> <<"-">>
      [] t = "-M"                -> <<"-", "M">>
      [] t = "x.s"               -> <<"x", ".", "s">>
      [] t = "m.bc"              -> <<"m", ".", "b", "c">>
      [] t = "out"               -> <<"o", "u", "t">> ]

\* the tokens argv is drawn from when the classifier is explored
ParseTokens ==
  { "-o", "-I", "--sysroot", "-m64", "-dead_strip", "-P",
    "--param", "-Wl,--start-group", "-Wl,--end-group", "-Wl,-z",
    "-flto=thin", "a.c", "b.o", "prog" }

\* the mode flags, sources and output a driver invocation is drawn from
ModeFlags == <<"-c", "-emit-llvm", "-flto", "-S", "-E", "-", "-M">>
SourceTokens == { "a.c", "x.s", "m.bc" }

(***************************************************************************)
(* Regular-expression helpers (regex crate, unanchored is_match on         *)
(* patterns that all carry ^ and $).                                       *)
(***************************************************************************)
StartsWith(s, p) == Len(s) >= Len(p) /\ SubSeq(s, 1, Len(p)) = p

\* ^p.*$
PrefixStar(s, p) == StartsWith(s, p)

\* ^p.+$
PrefixPlus(s, p) == StartsWith(s, p) /\ Len(s) > Len(p)

\* ^.+\.(e1|e2|...)$
DotExt(s, exts) ==
  \E d \in 2..Len(s) : s[d] = "." /\ SubSeq(s, d + 1, Len(s)) \in exts

Digits == { "0", "1", "2", "3", "4", "5", "6", "7", "8", "9" }

\* (\.\d)+$ from position d on
RECURSIVE DotDigits(_, _)
DotDigits(s, d) ==
  /\ d + 1 <= Len(s)
  /\ s[d] = "."
  /\ s[d + 1] \in Digits
  /\ (d + 1 = Len(s) \/ DotDigits(s, d + 2))

\* ^.+\.(e1|e2|...)(\.\d)+$
DotExtVersioned(s, exts) ==
  \E d \in 2..Len(s) : \E e \in d..Len(s) :
    /\ s[d] = "."
    /\ SubSeq(s, d + 1, e) \in exts
    /\ DotDigits(s, e + 1)

\* ^.+\.([fF](|[0-9][0-9]|or|OR|pp|PP))$
DotFortran(s) ==
  \E d \in 2..Len(s) :
    /\ s[d] = "."
    /\ d + 1 <= Len(s)
    /\ s[d + 1] \in {"f", "F"}
    /\ \/ d + 1 = Len(s)
       \/ d + 3 = Len(s) /\ s[d + 2] \in Digits /\ s[d + 3] \in Digits
       \/ d + 3 = Len(s) /\ SubSeq(s, d + 2, d + 3) \in
            { <<"o", "r">>, <<"O", "R">>, <<"p", "p">>, <<"P", "P">> }

(***************************************************************************)
(* The flag table (constants.rs)                                           *)
(***************************************************************************)
\* arg_exact_match_map(): the keys, grouped by the ArgInfo they map to
ExactKeys(arity, handler) ==
  CASE arity = 0 /\ handler = "input_file" ->
      {"/dev/null" }
    [] arity = 0 /\ handler = "print_only" ->
      {"-" }
    [] arity = 1 /\ handler = "output_file" ->
      {"-o" }
    [] arity = 0 /\ handler = "compile_only" ->
      {"-c", "--version", "-v" }
    [] arity = 0 /\ handler = "preprocess_only" ->
      {"-E" }
    [] arity = 0 /\ handler = "assemble_only" ->
      {"-S" }
    [] arity = 0 /\ handler = "verbose" ->
      {"--verbose" }
    [] arity = 1 /\ handler = "default_binary" ->
      {"--param", "-aux-info", "-Xpreprocessor", "-Xassembler", "-Xlinker" }
    [] arity = 0 /\ handler = "compile_unary" ->
      {"-w", "-W", "-pipe", "-undef", "-nostdinc", "-nostdinc++",
        "-Qunused-arguments", "-no-integrated-as", "-integrated-as",
        "-no-cpp-precomp", "-nostdlibinc", "-mno-omit-leaf-frame-pointer",
        "-maes", "-mno-aes", "-mavx", "-mno-avx", "-mavx2", "-mno-avx2",
        "-mno-red-zone", "-mmmx", "-mbmi", "-mbmi2", "-mf161c", "-mfma",
        "-mno-mmx", "-mno-global-merge", "-mno-80387", "-msse", "-mno-sse",
        "-msse2", "-mno-sse2", "-msse3", "-mno-sse3", "-mssse3",
        "-mno-ssse3", "-msse4", "-mno-sse4", "-msse4.1", "-mno-sse4.1",
        "-msse4.2", "-mno-sse4.2", "-msoft-float", "-m3dnow", "-mno-3dnow",
        "-mstackrealign", "-mretpoline-external-thunk",
        "-mno-fp-ret-in-387", "-mskip-rax-setup",
        "-mindirect-branch-register", "-ansi", "-pedantic", "-g", "-g0",
        "-g1", "-g2", "-g3", "-ggdb", "-ggdb0", "-ggdb1", "-ggdb2",
        "-ggdb3", "-gdwarf", "-gdwarf-2", "-gdwarf-3", "-gdwarf-4",
        "-gline-tables-only", "-grecord-gcc-switches", "-ggnu-pubnames",
        "-p", "-pg", "-O", "-O0", "-O1", "-O2", "-O3", "-Os", "-Ofast",
        "-Og", "-Oz", "-print-multi-directory", "-print-multi-lib",
        "-print-libgcc-file-name", "-print-search-dirs" }
    [] arity = 0 /\ handler = "emit_llvm" ->
      {"-emit-llvm" }
    [] arity = 0 /\ handler = "lto" ->
      {"-flto" }
    [] arity = 0 /\ handler = "compile_link_unary" ->
      {"-no-canonical-prefixes", "-m16", "-m32", "-m64", "-fprofile-arcs",
        "-coverage", "--coverage", "-fopenmp" }
    [] arity = 1 /\ handler = "compile_link_binary" ->
      {"--sysroot" }
    [] arity = 0 /\ handler = "link_unary" ->
      {"-pthread", "-shared", "-static", "-static-libgcc", "-pie",
        "-nostdlib", "-nodefaultlibs", "-rdynamic", "-dynamiclib" }
    [] arity = 1 /\ handler = "compile_binary" ->
      {"-mllvm", "-A", "-D", "-U", "-arch", "-I", "-idirafter", "-include",
        "-imacros", "-iprefix", "-iwithprefix", "-iwithprefixbefore",
        "-isystem", "-isysroot", "-iquote", "-imultilib", "-x", "-Xclang" }
    [] arity = 1 /\ handler = "compile_unary" ->
      {"-P", "-C" }
    [] arity = 0 /\ handler = "dependency_only" ->
      {"-M", "-MM", "-MG", "-MP", "-MD", "-MV", "-MMD" }
    [] arity = 1 /\ handler = "dependency_binary" ->
      {"-MF", "-MJ", "-MT", "-MQ" }
    [] arity = 1 /\ handler = "link_binary" ->
      {"-l", "-L", "-T", "-u", "-install_name", "-e", "-rpath",
        "-current_version", "-compatibility_version" }
    [] arity = 0 /\ handler = "warning_link_unary" ->
      {"-Wl,-dead_strip", "-dead_strip" }
    [] OTHER -> {}

ArgInfos == {
  [arity |-> 0, handler |-> "input_file"],
  [arity |-> 0, handler |-> "print_only"],
  [arity |-> 1, handler |-> "output_file"],
  [arity |-> 0, handler |-> "compile_only"],
  [arity |-> 0, handler |-> "preprocess_only"],
  [arity |-> 0, handler |-> "assemble_only"],
  [arity |-> 0, handler |-> "verbose"],
  [arity |-> 1, handler |-> "default_binary"],
  [arity |-> 0, handler |-> "compile_unary"],
  [arity |-> 0, handler |-> "emit_llvm"],
  [arity |-> 0, handler |-> "lto"],
  [arity |-> 0, handler |-> "compile_link_unary"],
  [arity |-> 1, handler |-> "compile_link_binary"],
  [arity |-> 0, handler |-> "link_unary"],
  [arity |-> 1, handler |-> "compile_binary"],
  [arity |-> 1, handler |-> "compile_unary"],
  [arity |-> 0, handler |-> "dependency_only"],
  [arity |-> 1, handler |-> "dependency_binary"],
  [arity |-> 1, handler |-> "link_binary"],
  [arity |-> 0, handler |-> "warning_link_unary"]
}

\* arg_exact_match_map().get(arg): the ArgInfo of an exact key, or "None"
ArgExactMatchMap(arg) ==
  IF \E ai \in ArgInfos : arg \in ExactKeys(ai.arity, ai.handler)
    THEN CHOOSE ai \in ArgInfos : arg \in ExactKeys(ai.arity, ai.handler)
    ELSE [arity |-> 0, handler |-> "None"]

\* arg_patterns()[n].pattern.is_match(s), n counted from 1 in declaration order
PatternMatches(n, s) ==
  \* ^-MF.*$
  CASE n = 1 -> PrefixStar(s, <<"-", "M", "F">>)
  \* ^-MJ.*$
    [] n = 2 -> PrefixStar(s, <<"-", "M", "J">>)
  \* ^-MQ.*$
    [] n = 3 -> PrefixStar(s, <<"-", "M", "Q">>)
  \* ^-MT.*$
    [] n = 4 -> PrefixStar(s, <<"-", "M", "T">>)
  \* ^-Wl,.+$
    [] n = 5 -> PrefixPlus(s, <<"-", "W", "l", ",">>)
  \* ^-W[^l].*$
    [] n = 6 -> Len(s) >= 3 /\ StartsWith(s, <<"-", "W">>) /\ s[3] # "l"
  \* ^-W[l][^,].*$
    [] n = 7 -> Len(s) >= 4 /\ StartsWith(s, <<"-", "W", "l">>) /\ s[4] # ","
  \* ^-(l|L).+$
    [] n = 8 -> PrefixPlus(s, <<"-", "l">>) \/ PrefixPlus(s, <<"-", "L">>)
  \* ^-I.+$
    [] n = 9 -> PrefixPlus(s, <<"-", "I">>)
  \* ^-D.+$
    [] n = 10 -> PrefixPlus(s, <<"-", "D">>)
  \* ^-B.+$
    [] n = 11 -> PrefixPlus(s, <<"-", "B">>)
  \* ^-isystem.+$
    [] n = 12 -> PrefixPlus(s, <<"-", "i", "s", "y", "s", "t", "e", "m">>)
  \* ^-U.+$
    [] n = 13 -> PrefixPlus(s, <<"-", "U">>)
  \* ^-fsanitize=.+$
    [] n = 14 -> PrefixPlus(s, <<"-", "f", "s", "a", "n", "i", "t", "i", "z", "e", "=">>)
  \* ^-fuse-ld=.+$
    [] n = 15 -> PrefixPlus(s, <<"-", "f", "u", "s", "e", "-", "l", "d", "=">>)
  \* ^-flto=.+$
    [] n = 16 -> PrefixPlus(s, <<"-", "f", "l", "t", "o", "=">>)
  \* ^-f.+$
    [] n = 17 -> PrefixPlus(s, <<"-", "f">>)
  \* ^-rtlib=.+$
    [] n = 18 -> PrefixPlus(s, <<"-", "r", "t", "l", "i", "b", "=">>)
  \* ^-std=.+$
    [] n = 19 -> PrefixPlus(s, <<"-", "s", "t", "d", "=">>)
  \* ^-stdlib=.+$
    [] n = 20 -> PrefixPlus(s, <<"-", "s", "t", "d", "l", "i", "b", "=">>)
  \* ^-mtune=.+$
    [] n = 21 -> PrefixPlus(s, <<"-", "m", "t", "u", "n", "e", "=">>)
  \* ^--sysroot=.+$
    [] n = 22 -> PrefixPlus(s, <<"-", "-", "s", "y", "s", "r", "o", "o", "t", "=">>)
  \* ^-print-.*$
    [] n = 23 -> PrefixStar(s, <<"-", "p", "r", "i", "n", "t", "-">>)
  \* ^-mmacosx-version-min=.+$
    [] n = 24 -> PrefixPlus(s, <<"-", "m", "m", "a", "c", "o", "s", "x", "-", "v", "e", "r", "s", "i", "o", "n", "-", "m", "i", "n", "=">>)
  \* ^-mstack-alignment=.+$
    [] n = 25 -> PrefixPlus(s, <<"-", "m", "s", "t", "a", "c", "k", "-", "a", "l", "i", "g", "n", "m", "e", "n", "t", "=">>)
  \* ^-march=.+$
    [] n = 26 -> PrefixPlus(s, <<"-", "m", "a", "r", "c", "h", "=">>)
  \* ^-mregparm=.+$
    [] n = 27 -> PrefixPlus(s, <<"-", "m", "r", "e", "g", "p", "a", "r", "m", "=">>)
  \* ^-mcmodel=.+$
    [] n = 28 -> PrefixPlus(s, <<"-", "m", "c", "m", "o", "d", "e", "l", "=">>)
  \* ^-mpreferred-stack-boundary=.+$
    [] n = 29 -> PrefixPlus(s, <<"-", "m", "p", "r", "e", "f", "e", "r", "r", "e", "d", "-", "s", "t", "a", "c", "k", "-", "b", "o", "u", "n", "d", "a", "r", "y", "=">>)
  \* ^-mindirect-branch=.+$
    [] n = 30 -> PrefixPlus(s, <<"-", "m", "i", "n", "d", "i", "r", "e", "c", "t", "-", "b", "r", "a", "n", "c", "h", "=">>)
  \* ^--param=.+$
    [] n = 31 -> PrefixPlus(s, <<"-", "-", "p", "a", "r", "a", "m", "=">>)
  \* ^.+\.(c|cc|cpp|C|cxx|i|s|S|bc)$
    [] n = 32 -> DotExt(s, {<<"c">>, <<"c", "c">>, <<"c", "p", "p">>, <<"C">>, <<"c", "x", "x">>, <<"i">>, <<"s">>, <<"S">>, <<"b", "c">>})
  \* ^.+\.([fF](|[0-9][0-9]|or|OR|pp|PP))$
    [] n = 33 -> DotFortran(s)
  \* ^.+\.(o|lo|So|so|po|a|dylib|pico|nossppico)$
    [] n = 34 -> DotExt(s, {<<"o">>, <<"l", "o">>, <<"S", "o">>, <<"s", "o">>, <<"p", "o">>, <<"a">>, <<"d", "y", "l", "i", "b">>, <<"p", "i", "c", "o">>, <<"n", "o", "s", "s", "p", "p", "i", "c", "o">>})
  \* ^.+\.dylib(\.\d)+$
    [] n = 35 -> DotExtVersioned(s, {<<"d", "y", "l", "i", "b">>})
  \* ^.+\.(So|so)(\.\d)+$
    [] n = 36 -> DotExtVersioned(s, {<<"S", "o">>, <<"s", "o">>})

\* arg_patterns()[n].arg_info, n counted from 1 in declaration order
ArgPatterns == <<
  [arity |-> 0, handler |-> "compile_unary"],
  [arity |-> 0, handler |-> "compile_unary"],
  [arity |-> 0, handler |-> "compile_unary"],
  [arity |-> 0, handler |-> "compile_unary"],
  [arity |-> 0, handler |-> "link_unary"],
  [arity |-> 0, handler |-> "compile_unary"],
  [arity |-> 0, handler |-> "compile_unary"],
  [arity |-> 0, handler |-> "link_unary"],
  [arity |-> 0, handler |-> "compile_unary"],
  [arity |-> 0, handler |-> "compile_unary"],
  [arity |-> 0, handler |-> "compile_link_unary"],
  [arity |-> 0, handler |-> "compile_link_unary"],
  [arity |-> 0, handler |-> "compile_unary"],
  [arity |-> 0, handler |-> "compile_link_unary"],
  [arity |-> 0, handler |-> "link_unary"],
  [arity |-> 0, handler |-> "lto"],
  [arity |-> 0, handler |-> "compile_unary"],
  [arity |-> 0, handler |-> "link_unary"],
  [arity |-> 0, handler |-> "compile_unary"],
  [arity |-> 0, handler |-> "compile_link_unary"],
  [arity |-> 0, handler |-> "compile_unary"],
  [arity |-> 0, handler |-> "compile_link_unary"],
  [arity |-> 0, handler |-> "compile_unary"],
  [arity |-> 0, handler |-> "compile_link_unary"],
  [arity |-> 0, handler |-> "compile_unary"],
  [arity |-> 0, handler |-> "compile_unary"],
  [arity |-> 0, handler |-> "compile_unary"],
  [arity |-> 0, handler |-> "compile_unary"],
  [arity |-> 0, handler |-> "compile_unary"],
  [arity |-> 0, handler |-> "compile_unary"],
  [arity |-> 0, handler |-> "compile_unary"],
  [arity |-> 0, handler |-> "input_file"],
  [arity |-> 0, handler |-> "input_file"],
  [arity |-> 0, handler |-> "object_file"],
  [arity |-> 0, handler |-> "object_file"],
  [arity |-> 0, handler |-> "object_file"]
>>

(***************************************************************************)
(* CompilerArgsInfo and its handlers (arg_parser.rs)                       *)
(***************************************************************************)
\* CompilerArgsInfo::default()
DefaultArgsInfo ==
  [ input_args         |-> <<>>,
    input_files        |-> <<>>,
    object_files       |-> <<>>,
    output_filename    |-> "",
    compile_args       |-> <<>>,
    link_args          |-> <<>>,
    forbidden_flags    |-> <<>>,
    is_verbose         |-> FALSE,
    is_dependency_only |-> FALSE,
    is_preprocess_only |-> FALSE,
    is_assemble_only   |-> FALSE,
    is_assembly        |-> FALSE,
    is_compile_only    |-> FALSE,
    is_emit_llvm       |-> FALSE,
    is_lto             |-> FALSE,
    is_print_only      |-> FALSE ]

\* \.(s|S)$
IsAssemblyName(s) ==
  Len(s) >= 2 /\ s[Len(s) - 1] = "." /\ s[Len(s)] \in {"s", "S"}

input_file(self, flag, params) ==
  [self EXCEPT !.input_files = Append(@, flag),
               !.is_assembly = IF IsAssemblyName(Chars[flag]) THEN TRUE ELSE @]

output_file(self, flag, params) ==
  [self EXCEPT !.output_filename = params[1]]

object_file(self, flag, params) ==
  [self EXCEPT !.object_files = Append(@, flag),
               !.link_args = Append(@, flag)]

\* linker_group keeping the two markers of the span only
linker_group_MarkersOnly(self, start, count, params) ==
  [self EXCEPT !.link_args = @ \o << params[1], params[count] >>]

linker_group(self, start, count, params) ==
  [self EXCEPT !.link_args = @ \o SubSeq(params, 1, count)]

preprocess_only(self, flag, params) ==
  [self EXCEPT !.is_preprocess_only = TRUE]

dependency_only(self, flag, params) ==
  [self EXCEPT !.is_dependency_only = TRUE,
               !.compile_args = Append(@, flag)]

print_only(self, flag, params) ==
  [self EXCEPT !.is_print_only = TRUE]

assemble_only(self, flag, params) ==
  [self EXCEPT !.is_assemble_only = TRUE]

verbose(self, flag, params) ==
  [self EXCEPT !.is_verbose = TRUE]

compile_only(self, flag, params) ==
  [self EXCEPT !.is_compile_only = TRUE]

emit_llvm(self, flag, params) ==
  [self EXCEPT !.is_emit_llvm = TRUE, !.is_compile_only = TRUE]

lto(self, flag, params) ==
  [self EXCEPT !.is_lto = TRUE]

link_unary(self, flag, params) ==
  [self EXCEPT !.link_args = Append(@, flag)]

compile_unary(self, flag, params) ==
  [self EXCEPT !.compile_args = Append(@, flag)]

warning_link_unary(self, flag, params) ==
  [self EXCEPT !.forbidden_flags = Append(@, flag)]

default_binary(self, flag, params) == self

dependency_binary(self, flag, params) ==
  [self EXCEPT !.compile_args = @ \o <<flag, params[1]>>,
               !.is_dependency_only = TRUE]

compile_binary(self, flag, params) ==
  [self EXCEPT !.compile_args = @ \o <<flag, params[1]>>]

\* link_binary pushing the parameter ahead of its flag
link_binary_ParamFirst(self, flag, params) ==
  [self EXCEPT !.link_args = @ \o <<params[1], flag>>]

link_binary(self, flag, params) ==
  [self EXCEPT !.link_args = @ \o <<flag, params[1]>>]

\* compile_link_unary without the push to link_args
compile_link_unary_CompileOnly(self, flag, params) ==
  [self EXCEPT !.compile_args = Append(@, flag)]

compile_link_unary(self, flag, params) ==
  [self EXCEPT !.compile_args = Append(@, flag),
               !.link_args = Append(@, flag)]

compile_link_binary(self, flag, params) ==
  [self EXCEPT !.compile_args = @ \o <<flag, params[1]>>,
               !.link_args = @ \o <<flag, params[1]>>]

\* the call through the function pointer ArgInfo::handler
CallHandler(handler, self, flag, params) ==
  CASE handler = "input_file"          -> input_file(self, flag, params)
    [] handler = "output_file"         -> output_file(self, flag, params)
    [] handler = "object_file"         -> object_file(self, flag, params)
    [] handler = "preprocess_only"     -> preprocess_only(self, flag, params)
    [] handler = "dependency_only"     -> dependency_only(self, flag, params)
    [] handler = "print_only"          -> print_only(self, flag, params)
    [] handler = "assemble_only"       -> assemble_only(self, flag, params)
    [] handler = "verbose"             -> verbose(self, flag, params)
    [] handler = "compile_only"        -> compile_only(self, flag, params)
    [] handler = "emit_llvm"           -> emit_llvm(self, flag, params)
    [] handler = "lto"                 -> lto(self, flag, params)
    [] handler = "link_unary"          -> link_unary(self, flag, params)
    [] handler = "compile_unary"       -> compile_unary(self, flag, params)
    [] handler = "warning_link_unary"  -> warning_link_unary(self, flag, params)
    [] handler = "default_binary"      -> default_binary(self, flag, params)
    [] handler = "dependency_binary"   -> dependency_binary(self, flag, params)
    [] handler = "compile_binary"      -> compile_binary(self, flag, params)
    [] handler = "link_binary"         -> link_binary(self, flag, params)
    [] handler = "compile_link_unary"  -> compile_link_unary(self, flag, params)
    [] handler = "compile_link_binary" -> compile_link_binary(self, flag, params)

(***************************************************************************)
(* One iteration of the scan loop of CompilerArgsInfo::parse_args.  The    *)
(* index i counts from 0 as in the source; args[i] is args[i + 1] here.    *)
(* An iteration yields [kind, self, offset]: kind "ok" continues the loop, *)
(* "panic" is the out-of-range slice of consume_params, any other kind is  *)
(* the Error variant returned through `?`.                                 *)
(***************************************************************************)
\* consume_params: the slice &args[param_start..param_end] panics when
\* param_end exceeds args.len()
consume_params(self, i, arg, arg_info, args) ==
  LET param_start == i + 1
      param_end   == param_start + arg_info.arity
  IN IF param_end > Len(args)
       THEN [kind |-> "panic", self |-> self, offset |-> 0]
       ELSE [kind   |-> "ok",
             self   |-> CallHandler(arg_info.handler, self, arg,
                                    SubSeq(args, param_start + 1, param_end)),
             offset |-> arg_info.arity]

\* the kinds of file a token can name on disk
FileKinds == { "absent", "relocatable", "executable", "unparsable", "unreadable" }

\* is_object_file(file) on a file of the given kind: "true", "false" or the
\* Error variant
is_object_file(kind) ==
  CASE kind = "absent"      -> "false"
    [] kind = "unreadable"  -> "Io"
    [] kind = "unparsable"  -> "ObjectReadError"
    [] kind = "relocatable" -> "true"
    [] kind = "executable"  -> "false"

\* args[i..].iter().position(|x| x == "-Wl,--end-group"): the offset from i of
\* the first end marker, or -1
GroupEnd(args, i) ==
  LET hits == { g \in 0..(Len(args) - i - 1) : args[i + g + 1] = "-Wl,--end-group" }
  IN IF hits = {} THEN -1 ELSE CHOOSE g \in hits : \A h \in hits : g <= h

\* the pattern loop without its break: the last matching pattern wins
FirstPattern_LastWins(arg) ==
  LET hits == { n \in 1..Len(ArgPatterns) : PatternMatches(n, Chars[arg]) }
  IN IF hits = {} THEN 0 ELSE CHOOSE n \in hits : \A m \in hits : m <= n

\* the index (from 1) of the first pattern that matches, or 0
FirstPattern(arg) ==
  LET hits == { n \in 1..Len(ArgPatterns) : PatternMatches(n, Chars[arg]) }
  IN IF hits = {} THEN 0 ELSE CHOOSE n \in hits : \A m \in hits : n <= m

ParseIteration(self, i, args, kind) ==
  LET arg      == args[i + 1]
      exact    == ArgExactMatchMap(arg)
      grp      == GroupEnd(args, i)
      pat      == FirstPattern(arg)
      isobj    == is_object_file(kind)
  IN IF exact.handler # "None" THEN
       LET r == consume_params(self, i, arg, exact, args)
       IN [r EXCEPT !.offset = 1 + @]
     ELSE IF arg = "-Wl,--start-group" THEN
       IF grp # -1
         THEN [kind   |-> "ok",
               self   |-> linker_group(self, arg, grp + 1,
                                       SubSeq(args, i + 1, i + 1 + grp)),
               offset |-> 1 + grp]
         ELSE [kind |-> "ok", self |-> compile_unary(self, arg, <<>>), offset |-> 1]
     ELSE IF pat # 0 THEN
       LET r == consume_params(self, i, arg, ArgPatterns[pat], args)
       IN [r EXCEPT !.offset = 1 + @]
     ELSE IF isobj = "true" THEN
       [kind |-> "ok", self |-> object_file(self, arg, <<>>), offset |-> 1]
     ELSE IF isobj = "false" THEN
       [kind |-> "ok", self |-> compile_unary(self, arg, <<>>), offset |-> 1]
     ELSE
       [kind |-> isobj, self |-> self, offset |-> 0]

(***************************************************************************)
(* Paths (std::path::Path on a file name given by its spelling)            *)
(***************************************************************************)
\* the index of the last "." of a file name, 0 when there is none
LastDot(n) ==
  LET dots == { d \in 1..Len(n) : n[d] = "." }
  IN IF dots = {} THEN 0 ELSE CHOOSE d \in dots : \A e \in dots : e <= d

\* Path::file_stem
FileStem(n) == IF LastDot(n) <= 1 THEN n ELSE SubSeq(n, 1, LastDot(n) - 1)

\* Path::extension, <<>> when there is none
Extension(n) == IF LastDot(n) <= 1 THEN <<>> ELSE SubSeq(n, LastDot(n) + 1, Len(n))

\* the object file hidden in compile-only mode as well
derive_object_and_bitcode_filepath_AlwaysHidden(file_name, is_compile_only) ==
  [ object  |-> <<".">> \o FileStem(file_name) \o <<".", "o">>,
    bitcode |-> <<".">> \o FileStem(file_name) \o <<".", "o", ".", "b", "c">> ]

\* derive_object_and_bitcode_filepath on the file name of an absolute source
\* path: the two file names, placed in the source's directory
derive_object_and_bitcode_filepath(file_name, is_compile_only) ==
  [ object  |-> IF is_compile_only
                  THEN file_name \o <<".", "o">>
                  ELSE <<".">> \o FileStem(file_name) \o <<".", "o">>,
    bitcode |-> <<".">> \o FileStem(file_name) \o <<".", "o", ".", "b", "c">> ]

\* CompilerArgsInfo::artifact_filepaths, every source canonicalized, no
\* bitcode store configured
artifact_filepaths(self) ==
  [ n \in 1..Len(self.input_files) |->
      LET d == derive_object_and_bitcode_filepath(Chars[self.input_files[n]],
                                                  self.is_compile_only)
      IN [ src     |-> self.input_files[n],
           object  |-> d.object,
           bitcode |-> d.bitcode ] ]

(***************************************************************************)
(* Pure parts of the driver (wrapper.rs, arg_parser.rs, rllvm_cc.rs)       *)
(***************************************************************************)
\* the path of the wrapped compiler
WrappedCompiler == "clang"

\* args.into_iter().filter(|x| !forbidden_flags_set.contains(x)).collect()
RECURSIVE FilterForbidden(_, _)
FilterForbidden(cmd, forbidden) ==
  IF cmd = <<>> THEN <<>>
  ELSE IF Head(cmd) \in forbidden
    THEN FilterForbidden(Tail(cmd), forbidden)
    ELSE <<Head(cmd)>> \o FilterForbidden(Tail(cmd), forbidden)

Range(s) == { s[n] : n \in 1..Len(s) }

\* command() without the removal of the forbidden flags
Command_Unfiltered(self, cfg) ==
  LET base == <<WrappedCompiler>>
      withlto == IF self.input_files = <<>> /\ self.link_args # <<>> /\ self.is_lto
                   THEN base \o cfg.lto_ldflags
                   ELSE base
  IN withlto \o self.input_args

\* CompilerWrapper::command
Command(self, cfg) ==
  LET base == <<WrappedCompiler>>
      withlto == IF self.input_files = <<>> /\ self.link_args # <<>> /\ self.is_lto
                   THEN base \o cfg.lto_ldflags
                   ELSE base
      all == withlto \o self.input_args
  IN IF self.forbidden_flags # <<>>
       THEN FilterForbidden(all, Range(self.forbidden_flags))
       ELSE all

\* the conditions array with dependency-only not excused by compile-only
SkipConditions_DependencyAlways(self, cfg) ==
  << cfg.is_configure_only,
     self.input_files = <<>>,
     self.is_emit_llvm,
     self.is_lto,
     self.is_assembly,
     self.is_assemble_only,
     self.is_dependency_only,
     self.is_preprocess_only,
     self.is_print_only >>

\* the conditions array of is_bitcode_generation_skipped, in order
SkipConditions(self, cfg) ==
  << cfg.is_configure_only,
     self.input_files = <<>>,
     self.is_emit_llvm,
     self.is_lto,
     self.is_assembly,
     self.is_assemble_only,
     self.is_dependency_only /\ ~self.is_compile_only,
     self.is_preprocess_only,
     self.is_print_only >>

\* the loop `for (condition, reason) in conditions` from entry n on
RECURSIVE SkipFold(_, _, _)
SkipFold(conditions, n, is_skipped) ==
  IF n > Len(conditions) THEN is_skipped
  ELSE SkipFold(conditions, n + 1, IF conditions[n] THEN TRUE ELSE is_skipped)

\* CompilerArgsInfo::is_bitcode_generation_skipped
is_bitcode_generation_skipped(self, cfg) ==
  SkipFold(SkipConditions(self, cfg), 1, FALSE)

\* Result values: Ok(Some(code)) and Err(variant)
Ok(code) == [kind |-> "Ok", code |-> code, err |-> ""]
Err(variant) == [kind |-> "Err", code |-> 0, err |-> variant]
Panic == [kind |-> "panic", code |-> 0, err |-> ""]
Running == [kind |-> "running", code |-> 0, err |-> ""]

\* the outcome of spawning and waiting for a subprocess: an exit code,
\* SpawnFailed when Command::status() fails, Signalled when the child was
\* killed by a signal (no exit code)
SpawnFailed == -1
Signalled == -2
Statuses == (0..MaxExitCode) \cup {SpawnFailed, Signalled}

\* execute_command handing back the exit code without testing success()
execute_command_Unchecked(cmd, status) ==
  IF cmd = <<>> THEN Err("InvalidArguments")
  ELSE IF status = SpawnFailed THEN Err("Io")
  ELSE Ok(status)

\* CompilerWrapper::execute_command on a command line and the outcome of
\* the subprocess
execute_command(cmd, status) ==
  IF cmd = <<>> THEN Err("InvalidArguments")
  ELSE IF status = SpawnFailed THEN Err("Io")
  ELSE IF status # 0 THEN Err("ExecutionFailure")
  ELSE Ok(status)

\* rllvm_main and main: the exit code of the process for the value of
\* cc.parse_args(..)?.run()?  (process::exit(code) on Ok(Some(code)), the
\* runtime's failure code for Err returned from main, 101 for a panic)
ExitCode(r) ==
  CASE r.kind = "Ok"    -> r.code
    [] r.kind = "Err"   -> 1
    [] r.kind = "panic" -> 101

(***************************************************************************)
(* Object files (file_utils.rs).  A path and the content of a section are  *)
(* sequences of characters; "LF" is the newline character.                 *)
(***************************************************************************)
\* the characters section contents are drawn from
SectionChars == { "/", "a", "b", " ", "LF" }

\* char::is_whitespace on these characters
IsWhitespace(c) == c \in { " ", "LF" }

\* the byte of a character, the order of str and of OsStr
Byte(c) ==
  CASE c = "LF" -> 10
    [] c = " "  -> 32
    [] c = "/"  -> 47
    [] c = "a"  -> 97
    [] c = "b"  -> 98

\* Path::is_absolute
is_absolute(p) == p # << >> /\ p[1] = "/"

\* the bitcode files on disk; the working directory is the root directory
BitcodeFilesOnDisk == { << "/", "a" >> }

\* the bitcode paths embed is called with: two absolute ones, a relative one
\* that resolves and a relative one that does not
BitcodePaths == { << "/", "a" >>, << "/", "b" >>, << "a" >>, << "b" >> }

\* a result that carries an object or a sequence: err is "" on Ok
Value(err, val) == [ err |-> err, val |-> val ]

\* Path::canonicalize: the absolute form, or Io when the file is missing
canonicalize(p) ==
  LET abs == IF is_absolute(p) THEN p ELSE << "/" >> \o p
  IN IF abs \in BitcodeFilesOnDisk THEN Value("", abs) ELSE Value("Io", << >>)

\* the absolute form of a bitcode path: the path itself when it is absolute,
\* resolved against the working directory otherwise
AbsoluteForm(p) == IF is_absolute(p) THEN p ELSE << "/" >> \o p

\* BinaryFormat and ObjectKind of the object crate, as far as the code
\* distinguishes them
Formats == { "Elf", "MachO", "Coff", "Wasm" }
Kinds == { "Relocatable", "Executable", "Dynamic" }

\* ELF_SECTION_NAME, DARWIN_SEGMENT_NAME / DARWIN_SECTION_NAME
ELF_SECTION_NAME == ".llvm_bc"
DARWIN_SEGMENT_NAME == "__RLLVM"
DARWIN_SECTION_NAME == "__llvm_bc"
COFF_SECTION_NAME == ".llvm_bc"

\* a section: segment name, name, kind, flags, alignment, content, size
Section(segment, name, kind, flags, align, data, size) ==
  [ segment |-> segment, name |-> name, kind |-> kind, flags |-> flags,
    align |-> align, data |-> data, size |-> size ]

\* write::Section::is_bss
is_bss(kind) == kind \in { "UninitializedData", "UninitializedTls" }

\* sections of an object a compiler writes
TextSection(format) ==
  Section(IF format = "MachO" THEN "__TEXT" ELSE "", ".text", "Text", 6, 4, << "x" >>, 1)
BssSection(format) ==
  Section(IF format = "MachO" THEN "__DATA" ELSE "", ".bss", "UninitializedData",
          3, 8, << >>, 4)
SymtabSection == Section("", ".symtab", "Metadata", 0, 8, << "s" >>, 1)

Object(format, kind, sections) ==
  [ format |-> format, kind |-> kind, sections |-> sections ]

NoObject == Object("", "", << >>)

\* a file on disk: which of its bytes are there ("absent": no file, "none":
\* an empty file, "some": a part of the content, "all": the whole content,
\* "garbage": not an object), the object the whole content parses to, and,
\* for each object that went into it, the bitcode paths embed was called
\* with for it
File(bytes, obj, given) == [ bytes |-> bytes, obj |-> obj, given |-> given ]

NoFile == File("absent", NoObject, << >>)
EmptyFile == File("none", NoObject, << >>)
PartialFile == File("some", NoObject, << >>)
GarbageFile == File("garbage", NoObject, << >>)

\* the objects on disk before embed is called: as a compiler wrote them, in
\* every format and kind, with and without an uninitialized section
CompiledObjects ==
  { Object(f, "Relocatable", << TextSection(f), SymtabSection >>) : f \in Formats } \cup
  { Object("Elf", "Relocatable", << TextSection("Elf"), SymtabSection, BssSection("Elf") >>),
    Object("Elf", "Executable", << TextSection("Elf"), SymtabSection >>),
    Object("MachO", "Dynamic", << TextSection("MachO"), SymtabSection >>),
    Object("Coff", "Executable", << TextSection("Coff"), SymtabSection >>),
    Object("Wasm", "Executable", << TextSection("Wasm"), SymtabSection >>) }

\* fs::read(path), then object::File::parse
ReadAndParse(file) ==
  CASE file.bytes = "absent"  -> Value("Io", NoObject)
    [] file.bytes = "all"     -> Value("", file.obj)
    [] OTHER                  -> Value("ObjectReadError", NoObject)

\* the `match object_binary_format` of embed and of extract: segment name and
\* section name of the bitcode-path section, "" for another format
BitcodeSectionOf(format) ==
  CASE format = "Elf"   -> [ segment |-> "", name |-> ELF_SECTION_NAME ]
    [] format = "MachO" -> [ segment |-> DARWIN_SEGMENT_NAME, name |-> DARWIN_SECTION_NAME ]
    [] format = "Coff"  -> [ segment |-> "", name |-> COFF_SECTION_NAME ]
    [] OTHER            -> [ segment |-> "", name |-> "" ]

\* the sections loop leaving flags and alignment to the writer's defaults
CopySection_DefaultFlags(s) ==
  Section(s.segment, s.name, s.kind, 0, 1,
          IF is_bss(s.kind) THEN << >> ELSE s.data,
          IF is_bss(s.kind) THEN s.size ELSE Len(s.data))

\* the sections loop of copy_object_file on one retained section
CopySection(s) ==
  IF is_bss(s.kind)
    THEN Section(s.segment, s.name, s.kind, s.flags,
                 IF s.align > 1 THEN s.align ELSE 1, << >>, s.size)
    ELSE Section(s.segment, s.name, s.kind, s.flags, s.align, s.data, Len(s.data))

NotMetadata(s) == s.kind # "Metadata"

RECURSIVE MapCopySection(_)
MapCopySection(secs) ==
  IF secs = << >> THEN << >>
  ELSE << CopySection(Head(secs)) >> \o MapCopySection(Tail(secs))

\* copy_object_file taking an object of any kind
copy_object_file_AnyKind(in_object) ==
  Value("", Object(in_object.format, in_object.kind,
                   MapCopySection(SelectSeq(in_object.sections, NotMetadata))))

\* copy_object_file: the write::Object with the sections of the input
copy_object_file(in_object) ==
  IF in_object.kind # "Relocatable"
    THEN Value("InvalidArguments", NoObject)
    ELSE Value("", Object(in_object.format, in_object.kind,
                          MapCopySection(SelectSeq(in_object.sections, NotMetadata))))

\* bitcode_filepath_string of embed
bitcode_filepath_string(bitcode_filepath) ==
  IF is_absolute(bitcode_filepath)
    THEN Value("", bitcode_filepath)
    ELSE IF canonicalize(bitcode_filepath).err # ""
           THEN canonicalize(bitcode_filepath)
           ELSE Value("", canonicalize(bitcode_filepath).val \o << "LF" >>)

\* write::Object::write followed by a parse of what it wrote: the writer
\* builds the metadata sections anew, after the others
Written(obj) == Object(obj.format, obj.kind, obj.sections \o << SymtabSection >>)

\* embed_bitcode_filepath_to_object_file up to `new_object_file.write()?`:
\* the error, or the object to be written
EmbeddedObject(bitcode_filepath, file, write_fails) ==
  LET parsed == ReadAndParse(file)
      target == BitcodeSectionOf(parsed.val.format)
      copied == copy_object_file(parsed.val)
      string == bitcode_filepath_string(bitcode_filepath)
  IN IF parsed.err # "" THEN Value(parsed.err, NoObject)
     ELSE IF target.name = "" THEN Value("UnsupportedBinaryFormat", NoObject)
     ELSE IF copied.err # "" THEN Value(copied.err, NoObject)
     ELSE IF string.err # "" THEN Value(string.err, NoObject)
     ELSE IF write_fails THEN Value("ObjectWriteError", NoObject)
     ELSE Value("", Written(
            [ copied.val EXCEPT !.sections =
                Append(@, Section(target.segment, target.name, "Unknown", 0, 1,
                                  string.val, Len(string.val))) ]))

\* str::trim
RECURSIVE TrimStart(_)
TrimStart(s) ==
  IF s # << >> /\ IsWhitespace(Head(s)) THEN TrimStart(Tail(s)) ELSE s

RECURSIVE TrimEnd(_)
TrimEnd(s) ==
  IF s # << >> /\ IsWhitespace(s[Len(s)])
    THEN TrimEnd(SubSeq(s, 1, Len(s) - 1))
    ELSE s

Trim(s) == TrimEnd(TrimStart(s))

\* str::split('\n'): the pieces between the newlines, the empty ones too
RECURSIVE SplitLines(_, _)
SplitLines(s, piece) ==
  IF s = << >> THEN << piece >>
  ELSE IF Head(s) = "LF" THEN << piece >> \o SplitLines(Tail(s), << >>)
  ELSE SplitLines(Tail(s), Append(piece, Head(s)))

\* the components of a path as Path::cmp compares them, flattened: 0 is the
\* root directory, 1 ends a component, a character is its byte
RECURSIVE PathKey(_, _)
PathKey(p, n) ==
  IF n > Len(p) THEN
    IF p # << >> /\ p[Len(p)] # "/" THEN << 1 >> ELSE << >>
  ELSE IF p[n] = "/" THEN
    ( IF n = 1 THEN << 0, 1 >>
      ELSE IF p[n - 1] # "/" THEN << 1 >>
      ELSE << >> ) \o PathKey(p, n + 1)
  ELSE << Byte(p[n]) >> \o PathKey(p, n + 1)

RECURSIVE LexLess(_, _)
LexLess(s, t) ==
  IF t = << >> THEN FALSE
  ELSE IF s = << >> THEN TRUE
  ELSE IF Head(s) # Head(t) THEN Head(s) < Head(t)
  ELSE LexLess(Tail(s), Tail(t))

\* Ord and Eq of PathBuf
PathLess(p, q) == LexLess(PathKey(p, 1), PathKey(q, 1))
PathEq(p, q) == PathKey(p, 1) = PathKey(q, 1)

\* Vec::sort, a stable sort
RECURSIVE InsertSorted(_, _)
InsertSorted(x, s) ==
  IF s = << >> THEN << x >>
  ELSE IF PathLess(x, Head(s)) THEN << x >> \o s
  ELSE << Head(s) >> \o InsertSorted(x, Tail(s))

RECURSIVE SortPaths(_, _)
SortPaths(s, sorted) ==
  IF s = << >> THEN sorted
  ELSE SortPaths(Tail(s), InsertSorted(Head(s), sorted))

\* Vec::dedup: of consecutive equal elements the first is kept
RECURSIVE Dedup(_)
Dedup(s) ==
  IF Len(s) <= 1 THEN s
  ELSE IF PathEq(s[1], s[2]) THEN Dedup(<< s[1] >> \o SubSeq(s, 3, Len(s)))
  ELSE << s[1] >> \o Dedup(Tail(s))

\* the contents of the sections of that name, one after the other
RECURSIVE ContentsOfSections(_, _)
ContentsOfSections(secs, name) ==
  IF secs = << >> THEN << >>
  ELSE (IF Head(secs).name = name THEN Head(secs).data ELSE << >>)
         \o ContentsOfSections(Tail(secs), name)

\* section_by_name_bytes giving the content of all sections of that name
section_by_name_bytes_AllSections(obj, name) ==
  IF \E n \in 1..Len(obj.sections) : obj.sections[n].name = name
    THEN [ found |-> TRUE, data |-> ContentsOfSections(obj.sections, name) ]
    ELSE [ found |-> FALSE, data |-> << >> ]

\* Object::section_by_name_bytes: the first section of that name, if any
section_by_name_bytes(obj, name) ==
  LET hits == { n \in 1..Len(obj.sections) : obj.sections[n].name = name }
  IN IF hits = {}
       THEN [ found |-> FALSE, data |-> << >> ]
       ELSE [ found |-> TRUE,
              data  |-> obj.sections[CHOOSE n \in hits : \A m \in hits : n <= m].data ]

\* the Some(section) arm of extract_bitcode_filepaths_from_parsed_object
PathsOfSection(section_data) ==
  Dedup(SortPaths(SplitLines(Trim(section_data), << >>), << >>))

extract_bitcode_filepaths_from_parsed_object(parsed_object) ==
  LET section_name == BitcodeSectionOf(parsed_object.format).name
      section      == section_by_name_bytes(parsed_object, section_name)
  IN IF section_name = "" THEN Value("UnsupportedBinaryFormat", << >>)
     ELSE IF section.found THEN Value("", PathsOfSection(section.data))
     ELSE Value("", << >>)

extract_bitcode_filepaths_from_object_file(file) ==
  LET parsed == ReadAndParse(file)
  IN IF parsed.err # "" THEN Value(parsed.err, << >>)
     ELSE extract_bitcode_filepaths_from_parsed_object(parsed.val)

\* the members loop of main in rllvm_get_bc.rs: every member of the archive is
\* parsed as an object, the first failure ends the run
RECURSIVE ParseMembers(_, _)
ParseMembers(members, object_files) ==
  IF members = << >> THEN Value("", object_files)
  ELSE LET parsed == ReadAndParse(Head(members))
       IN IF parsed.err # "" THEN Value(parsed.err, << >>)
          ELSE ParseMembers(Tail(members), Append(object_files, parsed.val))

\* the loop of extract_bitcode_filepaths_from_parsed_objects: the paths of
\* the objects one after the other, the first error ends it
RECURSIVE ExtendWithPaths(_, _)
ExtendWithPaths(object_files, bitcode_filepaths) ==
  IF object_files = << >> THEN Value("", bitcode_filepaths)
  ELSE LET r == extract_bitcode_filepaths_from_parsed_object(Head(object_files))
       IN IF r.err # "" THEN Value(r.err, << >>)
          ELSE ExtendWithPaths(Tail(object_files), bitcode_filepaths \o r.val)

extract_bitcode_filepaths_from_parsed_objects(object_files) ==
  LET all == ExtendWithPaths(object_files, << >>)
  IN IF all.err # "" THEN all
     ELSE Value("", Dedup(SortPaths(all.val, << >>)))

\* rllvm-get-bc on an archive, up to the extracted paths
extract_from_archive(members) ==
  LET parsed == ParseMembers(members, << >>)
  IN IF parsed.err # "" THEN Value(parsed.err, << >>)
     ELSE extract_bitcode_filepaths_from_parsed_objects(parsed.val)

\* the paths of the object files
ObjectPaths == { "a.o", "b.o", "out.o" }

\* no embed call was made yet
NoCall ==
  [ pc |-> "idle", bitcode |-> << >>, object |-> "", output |-> "", target |-> "",
    data |-> NoObject, before |-> << >>, result |-> Running, count |-> 0 ]

\* the reader's variables when no extraction has just returned
NotObserved == [ path |-> "", file |-> NoFile, members |-> << >> ]
NotExtracted == Value("", << >>)

\* the file embed writes when it succeeds
NewFile(bitcode_filepath, file, data) ==
  File("all", data, << file.given[1] \o << bitcode_filepath >> >>)

(***************************************************************************)
(* Source paths (path_utils.rs).  A source path is a sequence of           *)
(* characters; std::path::Path reads it as a root and components.          *)
(***************************************************************************)
\* most characters of a source path
MaxPathLen == 4

\* the characters source paths are drawn from
PathChars == { "/", ".", "a", "c" }

\* the pieces of a path between its separators, the empty ones too
RECURSIVE SplitPath(_, _)
SplitPath(p, piece) ==
  IF p = << >> THEN << piece >>
  ELSE IF Head(p) = "/" THEN << piece >> \o SplitPath(Tail(p), << >>)
  ELSE SplitPath(Tail(p), Append(piece, Head(p)))

\* Path::components of an absolute path, after the root: repeated
\* separators and "." are skipped, ".." is kept
Components(p) ==
  SelectSeq(SplitPath(p, << >>), LAMBDA c : c # << >> /\ c # << "." >>)

\* Path::parent of an absolute path: the components without the last one;
\* None for the root
ParentDir(p) ==
  LET c == Components(p)
  IN IF c = << >> THEN [ some |-> FALSE, val |-> << >> ]
     ELSE [ some |-> TRUE, val |-> SubSeq(c, 1, Len(c) - 1) ]

\* Path::file_name: the last component when it is a normal one
FileName(p) ==
  LET c == Components(p)
  IN IF c = << >> \/ c[Len(c)] = << ".", "." >>
       THEN [ some |-> FALSE, val |-> << >> ]
       ELSE [ some |-> TRUE, val |-> c[Len(c)] ]

\* derive_object_and_bitcode_filepath on a source path: the two paths as
\* the components after the root, or the error
DeriveFromPath(src_filepath, is_compile_only) ==
  IF ~( src_filepath # << >> /\ src_filepath[1] = "/" )
    THEN Value("InvalidArguments", << >>)
  ELSE IF ~ParentDir(src_filepath).some THEN Value("InvalidArguments", << >>)
  ELSE IF ~FileName(src_filepath).some THEN Value("InvalidArguments", << >>)
  ELSE LET names == derive_object_and_bitcode_filepath(FileName(src_filepath).val,
                                                       is_compile_only)
           parent_dir == ParentDir(src_filepath).val
       IN Value("", [ object  |-> Append(parent_dir, names.object),
                      bitcode |-> Append(parent_dir, names.bitcode) ])

\* derive_object_and_bitcode_filepath was not called
NotDerived ==
  [ pc |-> "idle", src_filepath |-> << >>, is_compile_only |-> FALSE,
    result |-> Value("", << >>) ]

(***************************************************************************)
(* The cache key (cache.rs).  A string is written to the hasher as its     *)
(* bytes and the byte 255; the bytes of an argument are stood for by one   *)
(* number, in the order of the strings.                                    *)
(***************************************************************************)
\* most compile arguments of one call
MaxCacheArgs == 2

\* the width of the modelled hash value
HashBits == 16

\* the compile arguments and the bitcode-generation flags
CacheArgs == { "-O2", "-g" }

\* the bytes of an argument: "-O2" < "-g" as strings
ArgBytes(arg) ==
  CASE arg = "-O2" -> 79
    [] arg = "-g"  -> 103

\* the contents of the source files on disk, as bytes
SourceContents == { << 1 >>, << 2, 1 >> }

\* Vec<String>::sort
RECURSIVE InsertArg(_, _)
InsertArg(x, sorted) ==
  IF sorted = << >> THEN << x >>
  ELSE IF ArgBytes(x) < ArgBytes(Head(sorted)) THEN << x >> \o sorted
  ELSE << Head(sorted) >> \o InsertArg(x, Tail(sorted))

RECURSIVE SortArgs(_, _)
SortArgs(s, sorted) ==
  IF s = << >> THEN sorted
  ELSE SortArgs(Tail(s), InsertArg(Head(s), sorted))

\* Hash for Vec<u8>: the length, then the bytes
HashBytes(bytes) == << Len(bytes) >> \o bytes

\* Hash for Vec<String>: the length, then every string
RECURSIVE HashStrings(_)
HashStrings(strings) ==
  IF strings = << >> THEN << >>
  ELSE << ArgBytes(Head(strings)), 255 >> \o HashStrings(Tail(strings))

HashVec(strings) == << Len(strings) >> \o HashStrings(strings)

\* DefaultHasher::new() .. finish(): a fixed function of what was written
RECURSIVE HasherFinish(_, _)
HasherFinish(written, h) ==
  IF written = << >> THEN h
  ELSE HasherFinish(Tail(written), (h * 31 + Head(written) + 1) % (2 ^ HashBits))

\* an Option: None, or Some(val)
None == [ some |-> FALSE, val |-> << >> ]
Some(val) == [ some |-> TRUE, val |-> val ]

\* compute_cache_key hashing the arguments in the order given
compute_cache_key_Unsorted(read, compile_args, bitcode_generation_flags) ==
  IF ~read.some THEN Err("Io")
  ELSE Ok(HasherFinish(HashBytes(read.val)
                   \o HashVec(compile_args)
                   \o ( IF bitcode_generation_flags.some
                          THEN HashVec(bitcode_generation_flags.val)
                          ELSE << >> ),
                 0))

\* compute_cache_key, for what fs::read of the source file gives
compute_cache_key(read, compile_args, bitcode_generation_flags) ==
  IF ~read.some THEN Err("Io")
  ELSE Ok(HasherFinish(HashBytes(read.val)
                   \o HashVec(SortArgs(compile_args, << >>))
                   \o ( IF bitcode_generation_flags.some
                          THEN HashVec(SortArgs(bitcode_generation_flags.val, << >>))
                          ELSE << >> ),
                 0))

(***************************************************************************)
(* The artifacts of one source (arg_parser.rs, artifact_filepaths)         *)
(***************************************************************************)
\* the byte of a character of a source path
PathByte(c) ==
  CASE c = "." -> 46
    [] c = "/" -> 47
    [] c = "a" -> 97
    [] c = "c" -> 99

\* calculate_filepath_hash: the path written to a DefaultHasher
calculate_filepath_hash(filepath) ==
  HasherFinish([ n \in 1..Len(filepath) |-> PathByte(filepath[n]) ], 0)

\* the characters of the decimal form of a hash, as one piece of a file name
Decimal(h) == << ToString(h) >>

\* the bitcode store directory, when one is configured and exists
BitcodeStore == << << "s" >> >>

\* the body of the loop of artifact_filepaths for a canonical source path:
\* the object path and the bitcode path, rebased into the store if any
ArtifactOf(src_filepath, is_compile_only, has_store) ==
  LET d == DeriveFromPath(src_filepath, is_compile_only)
      bitcode_file_name == d.val.bitcode[Len(d.val.bitcode)]
      new_bitcode_filename ==
        FileStem(bitcode_file_name) \o << "_" >>
          \o Decimal(calculate_filepath_hash(src_filepath))
          \o << "." >> \o Extension(bitcode_file_name)
  IN IF d.err # "" THEN d
     ELSE Value("", [ object  |-> d.val.object,
                      bitcode |-> IF has_store
                                    THEN Append(BitcodeStore, new_bitcode_filename)
                                    ELSE d.val.bitcode ])

\* a path as canonicalize returns it: absolute, separators single, no "."
\* and no ".." component, no trailing separator
IsCanonical(p) ==
  /\ p # << >> /\ p[1] = "/"
  /\ \A n \in 1..(Len(p) - 1) : ~( p[n] = "/" /\ p[n + 1] = "/" )
  /\ Len(p) > 1 => p[Len(p)] # "/"
  /\ \A n \in 1..Len(SplitPath(p, << >>)) :
       SplitPath(p, << >>)[n] \notin { << "." >>, << ".", "." >> }

\* no invocation was started
NoBuild == [ has_store |-> FALSE, procs |-> << >> ]

(***************************************************************************)
(* Symbols, relocations and COMDAT groups in copy_object_file              *)
(* (file_utils.rs).  Sections and symbols are named by their index in the  *)
(* input object; index 0 stands for None.                                  *)
(***************************************************************************)
\* most symbols of an input object
MaxSymbols == 2

\* the sections of the input objects: two, each metadata or not
SectionIndices == 1..2

\* SymbolSection of a symbol: Undefined, Section(index), or a variant the
\* copy does not know
SymbolSections ==
  { [ tag |-> "Undefined", index |-> 0 ], [ tag |-> "Unknown", index |-> 0 ] }
    \cup { [ tag |-> "Section", index |-> n ] : n \in SectionIndices }

\* SymbolFlags of a symbol: Elf, CoffSection with associative_section None
\* or Some(index), or a variant the copy does not know
SymbolFlagsOf ==
  { [ tag |-> "Elf", associative_section |-> 0 ],
    [ tag |-> "Unknown", associative_section |-> 0 ] }
    \cup { [ tag |-> "CoffSection", associative_section |-> n ] :
             n \in { 0 } \cup SectionIndices }

\* RelocationTarget: Symbol(index), Section(index), or another variant
RelocationTargets(symbols) ==
  { [ tag |-> "Absolute", index |-> 0 ] }
    \cup { [ tag |-> "Symbol", index |-> n ] : n \in 1..Len(symbols) }
    \cup { [ tag |-> "Section", index |-> n ] : n \in SectionIndices }

\* the first loop: out_sections has the sections that are not metadata
OutSections(in_object) ==
  { n \in SectionIndices : in_object.metadata[n] = FALSE }

\* a value of the copy: Ok with what was added, Err(InvalidArguments), or
\* a panic of an unwrap() on None
Copied(status, symbols, relocations, comdats) ==
  [ status |-> status, symbols |-> symbols, relocations |-> relocations,
    comdats |-> comdats ]

\* the symbols loop from symbol n on: out_symbols has the symbols added
RECURSIVE CopySymbols(_, _, _)
CopySymbols(in_object, n, out_symbols) ==
  IF n > Len(in_object.symbols) THEN Copied("Ok", out_symbols, << >>, << >>)
  ELSE
    LET in_symbol == in_object.symbols[n]
    IN IF /\ in_symbol.section.tag = "Section"
          /\ in_symbol.section.index \notin OutSections(in_object)
         THEN CopySymbols(in_object, n + 1, out_symbols)
       ELSE IF in_symbol.section.tag = "Unknown"
         THEN Copied("InvalidArguments", << >>, << >>, << >>)
       ELSE IF /\ in_symbol.flags.tag = "CoffSection"
               /\ in_symbol.flags.associative_section # 0
               /\ in_symbol.flags.associative_section \notin OutSections(in_object)
         THEN Copied("panic", << >>, << >>, << >>)
       ELSE IF in_symbol.flags.tag = "Unknown"
         THEN Copied("InvalidArguments", << >>, << >>, << >>)
       ELSE CopySymbols(in_object, n + 1,
                        Append(out_symbols, [ index |-> n,
                                              section |-> in_symbol.section,
                                              flags |-> in_symbol.flags ]))

\* the input indices of the symbols added
OutSymbols(out_symbols) == { out_symbols[n].index : n \in 1..Len(out_symbols) }

\* the relocations loop: the relocation of a section that is not metadata
CopyRelocations(in_object, out) ==
  LET r == in_object.relocation
  IN IF r.section = 0 \/ r.section \notin OutSections(in_object) THEN out
     ELSE IF r.target.tag = "Symbol"
       THEN IF r.target.index \in OutSymbols(out.symbols)
              THEN [ out EXCEPT !.relocations = << r >> ]
              ELSE Copied("panic", << >>, << >>, << >>)
     ELSE IF r.target.tag = "Section"
       THEN IF r.target.index \in OutSections(in_object)
              THEN [ out EXCEPT !.relocations = << r >> ]
              ELSE Copied("panic", << >>, << >>, << >>)
     ELSE Copied("InvalidArguments", << >>, << >>, << >>)

\* the comdats loop
CopyComdats(in_object, out) ==
  LET c == in_object.comdat
  IN IF c.symbol = 0 THEN out
     ELSE IF c.section \notin OutSections(in_object)
       THEN Copied("panic", << >>, << >>, << >>)
     ELSE IF c.symbol \notin OutSymbols(out.symbols)
       THEN Copied("panic", << >>, << >>, << >>)
     ELSE [ out EXCEPT !.comdats = << c >> ]

\* copy_object_file after its sections loop, on a relocatable object
CopyReferences(in_object) ==
  LET symbols == CopySymbols(in_object, 1, << >>)
      relocations == IF symbols.status = "Ok"
                       THEN CopyRelocations(in_object, symbols) ELSE symbols
  IN IF relocations.status = "Ok"
       THEN CopyComdats(in_object, relocations) ELSE relocations

\* copy_object_file was not called
NotCopied ==
  [ pc |-> "idle",
    in_object |-> [ metadata |-> << >>, symbols |-> << >>,
                    relocation |-> [ section |-> 0,
                                     target |-> [ tag |-> "Absolute", index |-> 0 ] ],
                    comdat |-> [ symbol |-> 0, section |-> 0 ] ],
    result |-> Copied("", << >>, << >>, << >>) ]

(***************************************************************************)
(* Merging bitcode files (merge.rs).  A bitcode file is a directory and a  *)
(* file name.                                                              *)
(***************************************************************************)
\* most bitcode files one merge is given
MaxBitcodeFiles == 3

\* the directories of the bitcode files, in the order of PathBuf
Directories == << "x", "y", "z" >>

BitcodeFiles == { << dir, name >> : dir \in Range(Directories), name \in { "a.bc" } }

\* Path::parent of a bitcode file
Parent(p) == p[1]

\* the BTreeMap of group_by_parent_dir as the sequence of its entries: for
\* every parent directory, in order, the paths with that parent
RECURSIVE GroupsOf(_, _)
GroupsOf(dirs, paths) ==
  IF dirs = << >> THEN << >>
  ELSE LET files == SelectSeq(paths, LAMBDA p : Parent(p) = Head(dirs))
       IN ( IF files = << >> THEN << >>
            ELSE << [ dir |-> Head(dirs), files |-> files ] >> )
            \o GroupsOf(Tail(dirs), paths)

group_by_parent_dir(paths) == GroupsOf(Directories, paths)

\* link_bitcode_files for the outcome of the llvm-link subprocess:
\* Ok(Signalled) is Ok(None)
link_bitcode_files(status) ==
  IF status = SpawnFailed THEN Err("Io") ELSE Ok(status)

\* `result.is_some_and(|code| code != 0)`
is_some_and_nonzero(result) == result.code # Signalled /\ result.code # 0

\* cleanup_files: every listed file that exists is removed
cleanup_files(disk, files) == disk \ Range(files)

\* no merge was called
NoMerge ==
  [ pc |-> "idle", groups |-> << >>, idx |-> 0, intermediate_files |-> << >>,
    disk |-> {}, result |-> Running ]

(***************************************************************************)
(* State                                                                   *)
(***************************************************************************)
VARIABLES
  argv,                  \* the arguments after `--` given to the wrapper
  config,                \* rllvm_config(): is_configure_only, lto_ldflags
  args,                  \* ClangWrapper::args, the CompilerArgsInfo
  is_parse_args_called,  \* ClangWrapper::is_parse_args_called
  i,                     \* scan index of parse_args
  pc,                    \* position of the invocation
  command,               \* the command line of the native build
  log,                   \* the steps started so far, with their outcomes
  artifacts,             \* artifact_filepaths of the per-input loop
  k,                     \* inputs of the per-input loop already finished
  object_filepaths,      \* intermediate objects collected by the loop
  src_bitcode_filepath,  \* the path the loop is about to embed
  ret,                   \* the value the invocation ends with
  fs,                    \* the object files on disk, by path
  call,                  \* the embed call in progress or last returned
  observed,              \* the file an extraction just read
  extracted,             \* what that extraction returned
  merge,                 \* the call of partial_link_bitcode_files
  derived,               \* the call of derive_object_and_bitcode_filepath
  cache,                 \* the calls of compute_cache_key that returned
  build,                 \* the invocations a build system runs side by side
  copied                 \* the call of copy_object_file on symbols and relocations

vars == << argv, config, args, is_parse_args_called, i, pc, command, log,
           artifacts, k, object_filepaths, src_bitcode_filepath, ret,
           fs, call, observed, extracted, merge, derived, cache, build,
           copied >>

driverVars == << command, log, artifacts, k, object_filepaths,
                 src_bitcode_filepath >>

objectVars == << fs, call, observed, extracted >>

toolVars == << merge, derived, cache, build, copied >>

SeqsUpTo(S, n) == UNION { [1..m -> S] : m \in 0..n }

RECURSIVE Select(_, _)
Select(s, S) ==
  IF s = <<>> THEN <<>>
  ELSE IF Head(s) \in S THEN <<Head(s)>> \o Select(Tail(s), S)
  ELSE Select(Tail(s), S)

DriverRest ==
  /\ args = DefaultArgsInfo
  /\ is_parse_args_called = FALSE
  /\ i = 0
  /\ pc = "parse_args"
  /\ command = <<>>
  /\ log = <<>>
  /\ artifacts = <<>>
  /\ k = 0
  /\ object_filepaths = <<>>
  /\ src_bitcode_filepath = <<>>
  /\ ret = Running

\* no invocation of the wrapper has started, no merge was called
InitRest ==
  /\ DriverRest
  /\ merge = NoMerge
  /\ derived = NotDerived
  /\ cache = << >>
  /\ build = NoBuild
  /\ copied = NotCopied

\* no extraction has returned since the last operation
NoExtraction ==
  /\ observed = NotObserved
  /\ extracted = NotExtracted

\* no object file on disk, no embed call, no extraction
ObjectRest ==
  /\ fs = [ x \in ObjectPaths \cup { "prog" } |-> NoFile ]
  /\ call = NoCall
  /\ NoExtraction

\* a driver invocation: any set of mode flags, an optional -o, any sources
Init ==
  /\ \E S \in SUBSET Range(ModeFlags) :
     \E out \in { <<>>, <<"-o", "out">> } :
     \E inputs \in SeqsUpTo(SourceTokens, MaxInputs) :
       argv = Select(ModeFlags, S) \o out \o inputs
  /\ config \in [ is_configure_only : BOOLEAN, lto_ldflags : { <<>> } ]
  /\ InitRest
  /\ ObjectRest

\* the classifier on every short argv
\* longer command lines in the shape of those of the parser's tests
LongArgvs ==
  { << "a.c", "-Wl,--start-group", "b.o", "--sysroot", "-Wl,--end-group",
       "--sysroot", "prog", "-m64", "-l", "b.o", "-dead_strip" >>,
    << "-flto=thin", "-Wl,-z", "-dead_strip", "-I", "-dead_strip", "b.o",
       "-Wl,--start-group", "a.c", "-P", "-o", "prog" >>,
    << "-c", "-l", "prog", "-I", "a.c", "-o", "out", "a.c", "-m64" >> }

InitParse ==
  /\ argv \in SeqsUpTo(ParseTokens, MaxArgs) \cup LongArgvs
  /\ config \in [ is_configure_only : { FALSE },
                  lto_ldflags : { <<>>, <<"-fuse-ld=lld", "-dead_strip">> } ]
  /\ InitRest
  /\ ObjectRest

Finish(r) == /\ ret' = r
             /\ pc' = "done"

\* ParseArgsCall without the check of is_parse_args_called: every call with
\* arguments parses
ParseArgsCall_ParsesAgain ==
  /\ pc = "parse_args"
  /\ IF argv = <<>> THEN
       /\ Finish(Err("InvalidArguments"))
       /\ UNCHANGED << args, is_parse_args_called, i >>
     ELSE
       /\ is_parse_args_called' = TRUE
       /\ args' = [args EXCEPT !.input_args = argv]
       /\ i' = 0
       /\ pc' = "parse_loop"
       /\ ret' = ret
  /\ UNCHANGED << objectVars, toolVars, argv, config, driverVars >>

(***************************************************************************)
(* Actions: the classifier                                                 *)
(***************************************************************************)
\* ClangWrapper::parse_args up to the call of CompilerArgsInfo::parse_args,
\* and the first two statements of the latter
ParseArgsCall ==
  /\ pc = "parse_args"
  /\ IF argv = <<>> THEN
       /\ Finish(Err("InvalidArguments"))
       /\ UNCHANGED << args, is_parse_args_called, i >>
     ELSE IF is_parse_args_called THEN
       /\ Finish(Err("Unknown"))
       /\ UNCHANGED << args, is_parse_args_called, i >>
     ELSE
       /\ is_parse_args_called' = TRUE
       /\ args' = [args EXCEPT !.input_args = argv]
       /\ i' = 0
       /\ pc' = "parse_loop"
       /\ ret' = ret
  /\ UNCHANGED << objectVars, toolVars, argv, config, driverVars >>

\* one iteration of `while i < args.len()`
ParseArgsStep ==
  /\ pc = "parse_loop"
  /\ i < Len(args.input_args)
  /\ \E kind \in FileKinds :
       LET r == ParseIteration(args, i, args.input_args, kind)
       IN IF r.kind = "ok" THEN
            /\ args' = r.self
            /\ i' = i + r.offset
            /\ UNCHANGED << pc, ret >>
          ELSE IF r.kind = "panic" THEN
            /\ Finish(Panic)
            /\ UNCHANGED << args, i >>
          ELSE
            /\ Finish(Err(r.kind))
            /\ UNCHANGED << args, i >>
  /\ UNCHANGED << objectVars, toolVars, argv, config, is_parse_args_called, driverVars >>

\* the loop ends: Ok(self), and rllvm_main goes on to run()
ParseArgsReturn ==
  /\ pc = "parse_loop"
  /\ i >= Len(args.input_args)
  /\ pc' = "build_target"
  /\ UNCHANGED << objectVars, toolVars, argv, config, args, is_parse_args_called, i, ret, driverVars >>

(***************************************************************************)
(* Actions: the driver, CompilerWrapper::run                               *)
(***************************************************************************)
\* a started step: its kind, the input (from 1) it works on or 0, the source
\* of that input, and its outcome
Step(mode, input, src, status) ==
  [mode |-> mode, input |-> input, src |-> src, status |-> status]

\* run() going on to the skip test whatever build_target() returned
RunAfterBuild_IgnoringFailure(res) == "skip_check"

\* run(), after build_target() returned res: the position run() goes on at,
\* "done" when it returns
RunAfterBuild(res) ==
  IF res.kind = "Err" THEN "done"
  ELSE IF res.code # 0 THEN "done"
  ELSE "skip_check"

\* build_target: command(), then the native build subprocess
BuildTarget ==
  /\ pc = "build_target"
  /\ \E status \in Statuses :
       LET cmd == Command(args, config)
           res == execute_command(cmd, status)
       IN /\ command' = cmd
          /\ log' = Append(log, Step("native", 0, "", status))
          /\ pc' = RunAfterBuild(res)
          /\ ret' = IF RunAfterBuild(res) = "done" THEN res ELSE ret
  /\ UNCHANGED << objectVars, toolVars, argv, config, args, is_parse_args_called, i, artifacts, k,
                  object_filepaths, src_bitcode_filepath >>

\* run(): `if self.args().is_bitcode_generation_skipped() { return Ok(Some(0)) }`
SkipCheck ==
  /\ pc = "skip_check"
  /\ IF is_bitcode_generation_skipped(args, config)
       THEN Finish(Ok(0))
       ELSE /\ pc' = "artifacts"
            /\ ret' = ret
  /\ UNCHANGED << objectVars, toolVars, argv, config, args, is_parse_args_called, i, driverVars >>

\* the position at the head of the per-input loop when n inputs are finished
LoopHead(n, arts, is_compile_only) ==
  IF n >= Len(arts) THEN "link"
  ELSE IF ~is_compile_only THEN "object"
  ELSE "bitcode"

\* generate_bitcode_files_and_embed_filepaths up to the loop:
\* artifact_filepaths()? fails with Io when a source cannot be canonicalized
ArtifactFilepaths ==
  /\ pc = "artifacts"
  /\ \E sources_exist \in BOOLEAN :
       IF sources_exist
         THEN /\ artifacts' = artifact_filepaths(args)
              /\ pc' = LoopHead(0, artifact_filepaths(args), args.is_compile_only)
              /\ ret' = ret
         ELSE /\ Finish(Err("Io"))
              /\ artifacts' = artifacts
  /\ UNCHANGED << objectVars, toolVars, argv, config, args, is_parse_args_called, i, command, log, k,
                  object_filepaths, src_bitcode_filepath >>

\* loop body, `if !is_compile_only`: build_object_file(..)? and the push
BuildObjectFile ==
  /\ pc = "object"
  /\ \E status \in Statuses :
       LET a   == artifacts[k + 1]
           res == execute_command(<<WrappedCompiler>>, status)
       IN /\ log' = Append(log, Step("object", k + 1, a.src, status))
          /\ IF res.kind = "Err"
               THEN /\ Finish(res)
                    /\ object_filepaths' = object_filepaths
               ELSE /\ object_filepaths' = Append(object_filepaths, a.object)
                    /\ pc' = "bitcode"
                    /\ ret' = ret
  /\ UNCHANGED << objectVars, toolVars, argv, config, args, is_parse_args_called, i, command,
                  artifacts, k, src_bitcode_filepath >>

\* loop body: the source is itself a bitcode file, no subprocess
UseSourceBitcode ==
  /\ pc = "bitcode"
  /\ Extension(Chars[artifacts[k + 1].src]) = <<"b", "c">>
  /\ src_bitcode_filepath' = Chars[artifacts[k + 1].src]
  /\ pc' = "embed"
  /\ UNCHANGED << objectVars, toolVars, argv, config, args, is_parse_args_called, i, command, log,
                  artifacts, k, object_filepaths, ret >>

\* loop body: generate_bitcode_file(..)?, and the return on a nonzero code
GenerateBitcodeFile ==
  /\ pc = "bitcode"
  /\ Extension(Chars[artifacts[k + 1].src]) # <<"b", "c">>
  /\ \E status \in Statuses :
       LET a   == artifacts[k + 1]
           res == execute_command(<<WrappedCompiler>>, status)
       IN /\ log' = Append(log, Step("bitcode", k + 1, a.src, status))
          /\ IF res.kind = "Err" \/ res.code # 0
               THEN /\ Finish(res)
                    /\ src_bitcode_filepath' = src_bitcode_filepath
               ELSE /\ src_bitcode_filepath' = a.bitcode
                    /\ pc' = "embed"
                    /\ ret' = ret
  /\ UNCHANGED << objectVars, toolVars, argv, config, args, is_parse_args_called, i, command,
                  artifacts, k, object_filepaths >>

\* the Error variants embed_bitcode_filepath_to_object_file returns
EmbedErrors == { "Io", "ObjectReadError", "ObjectWriteError", "InvalidArguments",
                 "UnsupportedBinaryFormat" }

\* loop body: embed_bitcode_filepath_to_object_file(..)?, end of iteration
Embed ==
  /\ pc = "embed"
  /\ \E outcome \in {"Ok"} \cup EmbedErrors :
       LET a == artifacts[k + 1]
       IN /\ log' = Append(log, Step("embed", k + 1, a.src,
                                    IF outcome = "Ok" THEN 0 ELSE -1))
          /\ IF outcome = "Ok"
               THEN /\ k' = k + 1
                    /\ pc' = LoopHead(k + 1, artifacts, args.is_compile_only)
                    /\ ret' = ret
               ELSE /\ Finish(Err(outcome))
                    /\ k' = k
  /\ UNCHANGED << objectVars, toolVars, argv, config, args, is_parse_args_called, i, command,
                  artifacts, object_filepaths, src_bitcode_filepath >>

\* after the loop: canonicalize the output file name, then link_object_files
LinkObjectFiles ==
  /\ pc = "link"
  /\ \E output_exists \in BOOLEAN : \E status \in Statuses :
       IF args.output_filename = "" \/ ~output_exists
         THEN /\ Finish(Err("Io"))
              /\ log' = log
         ELSE /\ log' = Append(log, Step("link", 0, "", status))
              /\ Finish(execute_command(<<WrappedCompiler>>, status))
  /\ UNCHANGED << objectVars, toolVars, argv, config, args, is_parse_args_called, i, command,
                  artifacts, k, object_filepaths, src_bitcode_filepath >>

NextParse ==
  \/ ParseArgsCall
  \/ ParseArgsStep
  \/ ParseArgsReturn
  \/ BuildTarget

Next ==
  \/ ParseArgsCall
  \/ ParseArgsStep
  \/ ParseArgsReturn
  \/ BuildTarget
  \/ SkipCheck
  \/ ArtifactFilepaths
  \/ BuildObjectFile
  \/ UseSourceBitcode
  \/ GenerateBitcodeFile
  \/ Embed
  \/ LinkObjectFiles

Spec == Init /\ [][Next]_vars

SpecParse == InitParse /\ [][NextParse]_vars

(***************************************************************************)
(* Properties of the driver                                                *)
(***************************************************************************)
BitcodePhase == { "object", "bitcode", "embed", "link" }
Subprocesses == { "native", "object", "bitcode", "link" }
Parsed == pc \notin { "parse_args", "parse_loop" }

\* C1: no bitcode-phase step (intermediate-object rebuild, bitcode
\* generation, embedding, re-link) is started unless the first step of the
\* invocation is the native build and it ended with exit code 0; after a
\* native build that did not succeed none is ever started.
C1_NativeBuildFirst ==
  \A j \in 1..Len(log) :
    log[j].mode \in BitcodePhase =>
      /\ j > 1
      /\ log[1].mode = "native"
      /\ log[1].status = 0

C1_Witness ==
  /\ Len(log) >= 2
  /\ log[1] = Step("native", 0, "", 0)
  /\ log[2].mode \in BitcodePhase

\* C2: when a wrapped-compiler subprocess exits with a nonzero code c, the
\* process exits with c and no later step is started.
C2_ExitCodeSurfaced ==
  \A j \in 1..Len(log) :
    (log[j].mode \in Subprocesses /\ log[j].status > 0) =>
      /\ j = Len(log)
      /\ pc = "done"
      /\ ExitCode(ret) = log[j].status

\* the source of input n is not itself a bitcode file
NeedsBitcode(n) == Extension(Chars[args.input_files[n]]) # <<"b", "c">>

\* step j of the log is a successful step of the given kind for input n
Succeeded(j, mode, n) ==
  log[j].mode = mode /\ log[j].input = n /\ log[j].status = 0

C4_LinkOnlyAfterRebuild ==
  /\ \A j \in 1..Len(log) : log[j].mode = "link" => ~args.is_compile_only
  /\ ( /\ args.is_compile_only
       /\ pc = "done"
       /\ Len(log) >= 1
       /\ Succeeded(Len(log), "embed", Len(args.input_files)) )
       => ret = Ok(0)

\* C5: is_bitcode_generation_skipped is the disjunction of its nine
\* conditions for every combination of mode bits and input files, and when
\* it holds no bitcode-phase step is started and run() returns exit code 0
\* after a successful native build.
C5_SkipPredicate ==
  LET d == \/ config.is_configure_only
           \/ Len(args.input_files) = 0
           \/ args.is_emit_llvm
           \/ args.is_lto
           \/ args.is_assembly
           \/ args.is_assemble_only
           \/ args.is_preprocess_only
           \/ args.is_print_only
           \/ (args.is_dependency_only /\ ~args.is_compile_only)
  IN /\ is_bitcode_generation_skipped(args, config) = d
     /\ (Parsed /\ d) =>
          /\ \A j \in 1..Len(log) : log[j].mode \notin BitcodePhase
          /\ (pc = "done" /\ log = << Step("native", 0, "", 0) >>) => ret = Ok(0)
          /\ pc \in { "build_target", "skip_check", "done" }

C5_Witness ==
  /\ pc = "done"
  /\ args.is_dependency_only /\ ~args.is_compile_only
  /\ ~args.is_emit_llvm /\ ~args.is_lto /\ ~args.is_assembly
  /\ ~args.is_assemble_only /\ ~args.is_preprocess_only /\ ~args.is_print_only
  /\ ~config.is_configure_only /\ Len(args.input_files) = 2
  /\ log = << Step("native", 0, "", 0) >>
  /\ ret = Ok(0)

(***************************************************************************)
(* Properties of the classifier                                            *)
(***************************************************************************)
\* CompilerArgsInfo::parse_args ended without a record
ParseFailed == pc = "done" /\ log = <<>> /\ argv # <<>>

\* C6: on an argv whose last token is not an arity-1 flag, so that no
\* parameter is missing, parse_args returns a record whatever the files on
\* disk are: it ends neither with an error nor with a panic.
C6_ClassifierTotal ==
  (argv # <<>> /\ ArgExactMatchMap(argv[Len(argv)]).arity = 0) => ~ParseFailed

\* C7: when the scan reaches an arity-1 flag that is the last token of
\* argv, parse_args returns Err(InvalidArguments).
C7_MissingParameterIsError ==
  ( /\ ParseFailed
    /\ i + 1 = Len(argv)
    /\ ArgExactMatchMap(argv[i + 1]).arity = 1 )
    => ret = Err("InvalidArguments")

\* the ArgInfo parse_args applies to a token it scans: exact match first,
\* then the linker-group marker, then the first matching pattern
VerbOf(arg) ==
  IF ArgExactMatchMap(arg).handler # "None" THEN ArgExactMatchMap(arg)
  ELSE IF arg = "-Wl,--start-group" THEN [arity |-> 0, handler |-> "linker_group"]
  ELSE IF FirstPattern(arg) # 0 THEN ArgPatterns[FirstPattern(arg)]
  ELSE [arity |-> 0, handler |-> "fallback"]

\* C8: every scanned token goes to exactly the buckets of its verb: a
\* compile_link flag (with its parameter) is appended to compile_args and to
\* link_args, a compile flag to compile_args only, a link flag to link_args
\* only, a forbidden flag to forbidden_flags and to neither of the others.
C8_BucketsByVerb ==
  [][ (pc = "parse_loop" /\ i' > i) =>
        LET arg  == args.input_args[i + 1]
            verb == VerbOf(arg).handler
            tok  == IF verb \in { "compile_binary", "link_binary", "compile_link_binary" }
                      THEN << arg, args.input_args[i + 2] >>
                      ELSE << arg >>
            Grows(bucket, by) == bucket' = bucket \o by
        IN CASE verb \in { "compile_link_unary", "compile_link_binary" } ->
                  /\ Grows(args.compile_args, tok)
                  /\ Grows(args.link_args, tok)
                  /\ Grows(args.forbidden_flags, <<>>)
             [] verb \in { "compile_unary", "compile_binary" } ->
                  /\ Grows(args.compile_args, tok)
                  /\ Grows(args.link_args, <<>>)
                  /\ Grows(args.forbidden_flags, <<>>)
             [] verb \in { "link_unary", "link_binary" } ->
                  /\ Grows(args.compile_args, <<>>)
                  /\ Grows(args.link_args, tok)
                  /\ Grows(args.forbidden_flags, <<>>)
             [] verb = "warning_link_unary" ->
                  /\ Grows(args.compile_args, <<>>)
                  /\ Grows(args.link_args, <<>>)
                  /\ Grows(args.forbidden_flags, tok)
             [] OTHER -> TRUE
    ]_vars

C8_Witness ==
  /\ pc = "build_target"
  /\ argv = << "-m64", "-dead_strip", "-Wl,-z" >>
  /\ args.compile_args = << "-m64" >>
  /\ args.link_args = << "-m64", "-Wl,-z" >>
  /\ args.forbidden_flags = << "-dead_strip" >>

RECURSIVE IsSubseq(_, _)
IsSubseq(s, t) ==
  IF s = <<>> THEN TRUE
  ELSE IF t = <<>> THEN FALSE
  ELSE IF Head(s) = Head(t) THEN IsSubseq(Tail(s), Tail(t))
  ELSE IsSubseq(s, Tail(t))

\* C9: every bucket is a subsequence of argv: its tokens are in the order
\* of their occurrences in argv.
C9_OrderPreserved ==
  /\ IsSubseq(args.input_files, argv)
  /\ IsSubseq(args.object_files, argv)
  /\ IsSubseq(args.compile_args, argv)
  /\ IsSubseq(args.link_args, argv)
  /\ IsSubseq(args.forbidden_flags, argv)

C9_Witness ==
  /\ pc = "build_target"
  /\ Len(argv) = 11
  /\ args.input_files = << "a.c" >>
  /\ args.link_args = << "-Wl,--start-group", "b.o", "--sysroot", "-Wl,--end-group",
                         "--sysroot", "prog", "-m64", "-l", "b.o" >>
  /\ args.compile_args = << "--sysroot", "prog", "-m64" >>
  /\ args.forbidden_flags = << "-dead_strip" >>

\* the lto_ldflags command() adds: those configured, when linking with lto
LtoFlagsOfCommand ==
  IF args.input_files = <<>> /\ args.link_args # <<>> /\ args.is_lto
    THEN config.lto_ldflags
    ELSE <<>>

NotForbidden(t) == \A n \in 1..Len(args.forbidden_flags) : args.forbidden_flags[n] # t

\* C10 as stated: the command is the compiler path, the configured
\* lto_ldflags when linking with lto, and argv without the tokens that equal
\* a forbidden flag; no forbidden flag occurs in it.
C10_CommandAsStated ==
  Len(log) >= 1 =>
    /\ command = <<WrappedCompiler>> \o LtoFlagsOfCommand \o SelectSeq(argv, NotForbidden)
    /\ \A n \in 1..Len(command) : NotForbidden(command[n])

\* C10 amended: the command is the compiler path, the configured lto_ldflags
\* when linking with lto, and argv, with every token of the whole that equals
\* a forbidden flag removed (those among the lto_ldflags too); the other
\* tokens keep their order and multiplicity, no forbidden flag occurs.
C10_CommandFiltered ==
  Len(log) >= 1 =>
    /\ command = SelectSeq(<<WrappedCompiler>> \o LtoFlagsOfCommand \o argv, NotForbidden)
    /\ \A n \in 1..Len(command) : NotForbidden(command[n])

C10_Witness ==
  /\ Len(log) = 1
  /\ argv = << "-flto=thin", "b.o", "-dead_strip" >>
  /\ config.lto_ldflags = << "-fuse-ld=lld", "-dead_strip" >>
  /\ command = << "clang", "-fuse-ld=lld", "-flto=thin", "b.o" >>

\* the index (from 1) in the scanned arguments of the first end marker after
\* position n, or 0 when no end marker follows
FirstEndMarkerAfter(n) ==
  LET ends == { e \in (n + 1)..Len(args.input_args) :
                  args.input_args[e] = "-Wl,--end-group" }
  IN IF ends = {} THEN 0 ELSE CHOOSE e \in ends : \A f \in ends : e <= f

\* C11: when the scan is at -Wl,--start-group and an end marker follows, the
\* span from the start marker to the first following end marker is appended
\* to link_args as one block, input_files, object_files and compile_args stay
\* as they are, and the scan resumes after the end marker; when no end marker
\* follows, the start marker alone is appended to compile_args, the scan
\* moves on by one token and the parse does not fail.
C11_LinkerGroup ==
  [][ ( /\ pc = "parse_loop"
        /\ i < Len(args.input_args)
        /\ args.input_args[i + 1] = "-Wl,--start-group" ) =>
        LET e == FirstEndMarkerAfter(i + 1)
        IN IF e # 0
             THEN /\ args'.link_args = args.link_args \o SubSeq(args.input_args, i + 1, e)
                  /\ args'.input_files = args.input_files
                  /\ args'.object_files = args.object_files
                  /\ args'.compile_args = args.compile_args
                  /\ i' = e
                  /\ pc' = "parse_loop"
             ELSE /\ args'.compile_args = Append(args.compile_args, "-Wl,--start-group")
                  /\ args'.link_args = args.link_args
                  /\ args'.input_files = args.input_files
                  /\ args'.object_files = args.object_files
                  /\ i' = i + 1
                  /\ pc' = "parse_loop"
    ]_vars

C11_Witness ==
  /\ pc = "parse_loop"
  /\ argv = << "-Wl,--start-group", "a.c", "-Wl,--end-group" >>
  /\ i = 3
  /\ args.link_args = << "-Wl,--start-group", "a.c", "-Wl,--end-group" >>
  /\ args.input_files = << >>
  /\ args.compile_args = << >>

\* -Wl,<non-empty>
IsWlToken(arg) == PrefixPlus(Chars[arg], <<"-", "W", "l", ",">>)

\* -flto=<value>
IsLtoValueToken(arg) == PrefixPlus(Chars[arg], <<"-", "f", "l", "t", "o", "=">>)

\* one scan step routes the token it is at by precedence: a token that is
\* neither an exact key nor the start marker is handled by the earliest
\* pattern that matches it, alone; a -Wl,<non-empty> token that is not an
\* exact key and not in `markers` is added to link_args and not to
\* compile_args; a -flto=<value> token sets lto and is not added to
\* compile_args
RoutedByPrecedence(markers) ==
  ( /\ pc = "parse_loop"
    /\ i < Len(args.input_args)
    /\ ArgExactMatchMap(args.input_args[i + 1]).handler = "None" ) =>
    LET arg == args.input_args[i + 1]
    IN /\ \A n \in 1..Len(ArgPatterns) :
            ( /\ arg # "-Wl,--start-group"
              /\ PatternMatches(n, Chars[arg])
              /\ \A m \in 1..(n - 1) : ~PatternMatches(m, Chars[arg]) ) =>
              /\ args' = CallHandler(ArgPatterns[n].handler, args, arg, << >>)
              /\ i' = i + 1
       /\ (IsWlToken(arg) /\ arg \notin markers) =>
            /\ Len(args'.link_args) > Len(args.link_args)
            /\ args'.link_args[Len(args.link_args) + 1] = arg
            /\ args'.compile_args = args.compile_args
       /\ IsLtoValueToken(arg) =>
            /\ args'.is_lto
            /\ args'.compile_args = args.compile_args
            /\ i' = i + 1

\* C12 as stated: precedence is exact match, linker group, then the first
\* matching pattern, which consumes one token; hence every -Wl,<non-empty>
\* token that is not an exact key goes to link_args and never to
\* compile_args, and every -flto=<value> sets lto and stays out of
\* compile_args.
C12_Precedence == [][ RoutedByPrecedence({}) ]_vars

\* C12 amended: the same, the -Wl,<non-empty> part being about the tokens
\* other than the start marker -Wl,--start-group, which the linker-group rule
\* handles before the patterns.
C12_PrecedenceBelowLinkerGroup == [][ RoutedByPrecedence({ "-Wl,--start-group" }) ]_vars

C12_Witness ==
  /\ pc = "build_target"
  /\ argv = << "-flto=thin", "-Wl,-z", "-Wl,--end-group" >>
  /\ args.is_lto
  /\ args.link_args = << "-Wl,-z", "-Wl,--end-group" >>
  /\ args.compile_args = << >>


(***************************************************************************)
(* Actions: embedding into, linking and reading object files               *)
(***************************************************************************)
\* most calls of embed in one behaviour
MaxEmbeds == 1

\* a compiled object on disk
Compiled(obj) == File("all", obj, << << >> >>)

\* an object an earlier invocation of the wrapper left on disk: compiled, and
\* the path p embedded in place
Mutated(obj, p) ==
  NewFile(p, Compiled(obj), EmbeddedObject(p, Compiled(obj), FALSE).val)

FreshObject(f) == Object(f, "Relocatable", << TextSection(f), SymtabSection >>)

\* the object files of a build directory: a.o is any compiled object, an
\* object of an earlier invocation, something that is no object, or missing;
\* b.o is a relocatable object of the same format, compiled or of an earlier
\* invocation
InitObject ==
  /\ argv = << >>
  /\ config = [ is_configure_only |-> FALSE, lto_ldflags |-> << >> ]
  /\ InitRest
  /\ \E a \in { Compiled(o) : o \in CompiledObjects }
                \cup { Mutated(FreshObject("Elf"), p) : p \in { << "/", "a" >>, << "a" >> } }
                \cup { NoFile, GarbageFile } :
     \E b_mutated \in BOOLEAN :
       LET f == IF a.obj.format \in { "Elf", "MachO", "Coff" }
                  THEN a.obj.format ELSE "Elf"
           b == IF b_mutated
                  THEN Mutated(FreshObject(f), << "/", "b" >>)
                  ELSE Compiled(FreshObject(f))
       IN fs = [ x \in ObjectPaths \cup { "prog" } |->
                   CASE x = "a.o" -> a
                     [] x = "b.o" -> b
                     [] OTHER     -> NoFile ]
  /\ call = NoCall
  /\ NoExtraction

notObjectVars == << argv, config, args, is_parse_args_called, i, pc, command,
                    log, artifacts, k, object_filepaths, src_bitcode_filepath, ret,
                    toolVars >>

\* embed_bitcode_filepath_to_object_file up to the call of fs::write; the
\* objects of a build are embedded into before they are linked
EmbedCall ==
  /\ call.pc \in { "idle", "returned" }
  /\ call.count < MaxEmbeds
  /\ fs["prog"] = NoFile
  /\ \E p \in BitcodePaths, o \in ObjectPaths, out \in { "", "out.o" },
        write_fails \in BOOLEAN :
       LET res == EmbeddedObject(p, fs[o], write_fails)
       IN call' = [ pc      |-> IF res.err = "" THEN "create" ELSE "returned",
                    bitcode |-> p,
                    object  |-> o,
                    output  |-> out,
                    target  |-> IF out = "" THEN o ELSE out,
                    data    |-> res.val,
                    before  |-> fs,
                    result  |-> IF res.err = "" THEN Running ELSE Err(res.err),
                    count   |-> call.count + 1 ]
  /\ observed' = NotObserved
  /\ extracted' = NotExtracted
  /\ UNCHANGED << fs, notObjectVars >>

\* fs::write: File::create opens the file and truncates it
WriteCreate ==
  /\ call.pc = "create"
  /\ \E created \in BOOLEAN :
       IF created
         THEN /\ fs' = [ fs EXCEPT ![call.target] = EmptyFile ]
              /\ call' = [ call EXCEPT !.pc = "write" ]
         ELSE /\ fs' = fs
              /\ call' = [ call EXCEPT !.pc = "returned", !.result = Err("Io") ]
  /\ observed' = NotObserved
  /\ extracted' = NotExtracted
  /\ UNCHANGED notObjectVars

\* fs::write: write_all, the first bytes
WriteFirst ==
  /\ call.pc = "write"
  /\ \E written \in BOOLEAN :
       IF written
         THEN /\ fs' = [ fs EXCEPT ![call.target] = PartialFile ]
              /\ call' = [ call EXCEPT !.pc = "write_rest" ]
         ELSE /\ fs' = fs
              /\ call' = [ call EXCEPT !.pc = "returned", !.result = Err("Io") ]
  /\ observed' = NotObserved
  /\ extracted' = NotExtracted
  /\ UNCHANGED notObjectVars

\* fs::write: write_all, the remaining bytes, and the return of embed
WriteRest ==
  /\ call.pc = "write_rest"
  /\ \E written \in BOOLEAN :
       IF written
         THEN /\ fs' = [ fs EXCEPT ![call.target] =
                           NewFile(call.bitcode, call.before[call.object], call.data) ]
              /\ call' = [ call EXCEPT !.pc = "returned", !.result = Ok(0) ]
         ELSE /\ fs' = fs
              /\ call' = [ call EXCEPT !.pc = "returned", !.result = Err("Io") ]
  /\ observed' = NotObserved
  /\ extracted' = NotExtracted
  /\ UNCHANGED notObjectVars

\* extract_bitcode_filepaths_from_object_file, by a reader that runs
\* alongside the embed call
ExtractFromObjectFile ==
  /\ \E x \in ObjectPaths \cup { "prog" } :
       /\ observed' = [ path |-> x, file |-> fs[x], members |-> << >> ]
       /\ extracted' = extract_bitcode_filepaths_from_object_file(fs[x])
  /\ UNCHANGED << fs, call, notObjectVars >>

\* the orders a linker is given a.o and b.o in
LinkOrders == { << "a.o" >>, << "b.o" >>, << "a.o", "b.o" >>, << "b.o", "a.o" >> }

\* the bitcode-path section of a linked artifact: the contents of the
\* members' sections of that name, one after the other
RECURSIVE LinkedContents(_, _)
LinkedContents(members, name) ==
  IF members = << >> THEN << >>
  ELSE ContentsOfSections(Head(members).obj.sections, name)
         \o LinkedContents(Tail(members), name)

\* objects a linker accepts together: whole, relocatable, of one format that
\* has a bitcode-path section name
Linkable(members) ==
  /\ \A n \in 1..Len(members) :
       /\ members[n].bytes = "all"
       /\ members[n].obj.kind = "Relocatable"
       /\ members[n].obj.format = members[1].obj.format
  /\ BitcodeSectionOf(members[1].obj.format).name # ""

\* the artifact a linker writes for these objects
LinkedArtifact(members) ==
  LET format  == members[1].obj.format
      target  == BitcodeSectionOf(format)
      data    == LinkedContents(members, target.name)
      has     == \E n \in 1..Len(members) :
                   section_by_name_bytes(members[n].obj, target.name).found
  IN File("all",
          Object(format, "Executable",
                 << TextSection(format) >> \o
                 ( IF has
                     THEN << Section(target.segment, target.name, "Unknown",
                                     0, 1, data, Len(data)) >>
                     ELSE << >> )),
          [ n \in 1..Len(members) |-> members[n].given[1] ])

\* the object files at these paths
FilesAt(order) == [ n \in 1..Len(order) |-> fs[order[n]] ]

\* a linker combines relocatable objects of one format, in any order, into
\* the artifact prog
Link ==
  /\ call.pc \in { "idle", "returned" }
  /\ \E order \in LinkOrders :
       /\ Linkable(FilesAt(order))
       /\ fs' = [ fs EXCEPT !["prog"] = LinkedArtifact(FilesAt(order)) ]
  /\ observed' = NotObserved
  /\ extracted' = NotExtracted
  /\ UNCHANGED << call, notObjectVars >>

\* rllvm-get-bc on an archive that ar made of the object files on disk, in
\* any order
ExtractFromArchive ==
  /\ \E order \in LinkOrders :
       /\ \A n \in 1..Len(order) : fs[order[n]].bytes # "absent"
       /\ observed' = [ path |-> "lib.a", file |-> NoFile, members |-> order ]
       /\ extracted' = extract_from_archive(FilesAt(order))
  /\ UNCHANGED << fs, call, notObjectVars >>

NextObject ==
  \/ EmbedCall
  \/ WriteCreate
  \/ WriteFirst
  \/ WriteRest
  \/ ExtractFromObjectFile
  \/ Link
  \/ ExtractFromArchive

SpecObject == InitObject /\ [][NextObject]_vars

(***************************************************************************)
(* Properties of the object files                                          *)
(***************************************************************************)
\* the last embed call returned Ok(())
EmbedSucceeded == call.pc = "returned" /\ call.result = Ok(0)

\* the object the last embed call read
InputOfCall == call.before[call.object].obj

\* C13: after embed(p, o, out) returned Ok, for a separate output path as
\* for the overwritten input, extraction from the written object returns
\* exactly the one-element sequence of the absolute form of p.
C13_RoundTrip ==
  EmbedSucceeded =>
    extract_bitcode_filepaths_from_object_file(fs[call.target])
      = Value("", << AbsoluteForm(call.bitcode) >>)

\* a sequence of paths is sorted and free of duplicates
StrictlyAscending(r) == \A n \in 1..(Len(r) - 1) : PathLess(r[n], r[n + 1])

\* C14: when prog is linked, in any order, from objects into each of which
\* embed put one absolute path, extraction from prog returns the sorted,
\* duplicate-free sequence of exactly these paths: none fused, none lost.
C14_LinkComposition ==
  LET prog == fs["prog"]
      r    == extract_bitcode_filepaths_from_object_file(prog)
  IN ( /\ prog.bytes = "all"
       /\ \A n \in 1..Len(prog.given) :
            Len(prog.given[n]) = 1 /\ is_absolute(prog.given[n][1]) ) =>
       /\ r.err = ""
       /\ Range(r.val) = { prog.given[n][1] : n \in 1..Len(prog.given) }
       /\ StrictlyAscending(r.val)

\* the sections of the object the last embed call wrote, the metadata the
\* writer builds left aside, and the last of them, the one embed added
SectionsWritten == SelectSeq(fs[call.target].obj.sections, NotMetadata)
SectionAdded == SectionsWritten[Len(SectionsWritten)]

\* C15: the content of the section embed added is the absolute form of the
\* bitcode path followed by exactly one newline, for an absolute bitcode
\* path as for a relative one.
C15_TrailingNewline ==
  EmbedSucceeded =>
    SectionAdded.data = AbsoluteForm(call.bitcode) \o << "LF" >>

\* the last embed call was given the object an earlier embed call wrote, and
\* the bitcode path of that call
EmbeddedTwice ==
  /\ EmbedSucceeded
  /\ call.before[call.object].given = << << call.bitcode >> >>

\* C16: after embed was applied twice to an object with the same path p, the
\* second call on the output of the first, extraction from the result
\* returns p exactly once and no other path.
C16_EmbedIdempotent ==
  EmbeddedTwice =>
    extract_bitcode_filepaths_from_object_file(fs[call.target])
      = Value("", << AbsoluteForm(call.bitcode) >>)

C16_Witness ==
  /\ EmbeddedTwice
  /\ call.bitcode = << "/", "a" >>
  /\ Len(SectionsWritten) = 3
  /\ observed.path = call.target
  /\ extracted = Value("", << << "/", "a" >> >>)

\* the content of the object file of the last embed call before the call,
\* and the content the call is to write
OldContent == call.before[call.object]
NewContent ==
  IF call.data = NoObject THEN OldContent
  ELSE NewFile(call.bitcode, OldContent, call.data)

\* C17: while and after embed overwrites its input object (no output path),
\* a reader of the object path gets the whole old content or the whole new
\* content, never an empty or a partly written file; and when the write
\* fails the object file is as it was before the call.
C17_AtomicOverwrite ==
  (call.pc # "idle" /\ call.output = "") =>
    /\ observed.path = call.object => observed.file \in { OldContent, NewContent }
    /\ (call.pc = "returned" /\ call.result.kind = "Err") =>
         fs[call.object] = OldContent

\* the input object and the target of the last embed call are as they were
\* before the call
NothingWritten ==
  /\ fs[call.object] = call.before[call.object]
  /\ fs[call.target] = call.before[call.target]

\* C18: embed on an ELF, Mach-O or COFF input that is not relocatable
\* returns InvalidArguments, on an input of another binary format
\* UnsupportedBinaryFormat, and in both cases neither the input object nor
\* the output path is written.
C18_RejectedInputs ==
  ( /\ call.pc = "returned"
    /\ call.before[call.object].bytes = "all" ) =>
    /\ ( /\ InputOfCall.format \in { "Elf", "MachO", "Coff" }
         /\ InputOfCall.kind # "Relocatable" ) =>
           /\ call.result = Err("InvalidArguments")
           /\ NothingWritten
    /\ InputOfCall.format \notin { "Elf", "MachO", "Coff" } =>
           /\ call.result = Err("UnsupportedBinaryFormat")
           /\ NothingWritten

C18_Witness ==
  /\ call.pc = "returned"
  /\ call.output = "out.o"
  /\ InputOfCall.format = "MachO"
  /\ InputOfCall.kind = "Dynamic"
  /\ call.result = Err("InvalidArguments")
  /\ fs["out.o"] = NoFile

\* C19: the object embed writes has the sections of the input that are not
\* metadata, in the same order and each with the same segment name, name,
\* kind, flags, alignment and content or size, followed by exactly one new
\* section: .llvm_bc for ELF and COFF, segment __RLLVM section __llvm_bc for
\* Mach-O, of kind unknown, alignment 1 and flags 0.
C19_OnlyOneSectionAdded ==
  EmbedSucceeded =>
    LET kept == SelectSeq(InputOfCall.sections, NotMetadata)
    IN /\ Len(SectionsWritten) = Len(kept) + 1
       /\ \A n \in 1..Len(kept) :
            /\ SectionsWritten[n].segment = kept[n].segment
            /\ SectionsWritten[n].name = kept[n].name
            /\ SectionsWritten[n].kind = kept[n].kind
            /\ SectionsWritten[n].flags = kept[n].flags
            /\ SectionsWritten[n].align = kept[n].align
            /\ SectionsWritten[n].data = kept[n].data
            /\ SectionsWritten[n].size = kept[n].size
       /\ SectionAdded.name =
            ( IF InputOfCall.format = "MachO" THEN "__llvm_bc" ELSE ".llvm_bc" )
       /\ SectionAdded.segment =
            ( IF InputOfCall.format = "MachO" THEN "__RLLVM" ELSE "" )
       /\ SectionAdded.kind = "Unknown"
       /\ SectionAdded.align = 1
       /\ SectionAdded.flags = 0

C19_Witness ==
  /\ EmbedSucceeded
  /\ Len(InputOfCall.sections) = 3
  /\ InputOfCall.sections[3].kind = "UninitializedData"
  /\ Len(SectionsWritten) = 3
  /\ SectionsWritten[2].size = 4
  /\ SectionAdded.name = ".llvm_bc"

(***************************************************************************)
(* Extraction on every content of the bitcode-path section                 *)
(***************************************************************************)
\* longest content of the bitcode-path section drawn
MaxSectionLen == 4

\* a linked artifact whose bitcode-path section has the given content
Artifact(format, content) ==
  File("all",
       Object(format, "Executable",
              << TextSection(format),
                 Section(BitcodeSectionOf(format).segment, BitcodeSectionOf(format).name,
                         "Unknown", 0, 1, content, Len(content)) >>),
       << >>)

\* the artifact prog is on disk: an ELF artifact with any content of the
\* section, or an artifact of any format without the section
InitExtract ==
  /\ argv = << >>
  /\ config = [ is_configure_only |-> FALSE, lto_ldflags |-> << >> ]
  /\ InitRest
  /\ \E prog \in { Artifact("Elf", content) :
                     content \in SeqsUpTo(SectionChars, MaxSectionLen) }
                 \cup { Artifact(f, << "/", "a", "LF">>) : f \in { "MachO", "Coff" } }
                 \cup { File("all", Object(f, "Executable", << TextSection(f) >>), << >>) :
                          f \in Formats } :
       fs = [ x \in ObjectPaths \cup { "prog" } |->
                IF x = "prog" THEN prog ELSE NoFile ]
  /\ call = NoCall
  /\ NoExtraction

NextExtract ==
  \/ ExtractFromObjectFile

SpecExtract == InitExtract /\ [][NextExtract]_vars

\* the bitcode-path section of the artifact prog
SectionOfProg ==
  section_by_name_bytes(fs["prog"].obj, BitcodeSectionOf(fs["prog"].obj.format).name)

\* the lines of the section, surrounding whitespace trimmed, that are not empty
NonEmptyLines ==
  LET lines == SplitLines(Trim(SectionOfProg.data), << >>)
  IN { lines[n] : n \in { m \in 1..Len(lines) : lines[m] # << >> } }

\* C20: for every content of the bitcode-path section the extraction returns
\* a strictly ascending sequence with one path for every non-empty line and
\* no empty path; when the section is absent it returns the empty sequence.
C20_ExtractedPaths ==
  ( /\ observed.path = "prog"
    /\ fs["prog"].obj.format \in { "Elf", "MachO", "Coff" } ) =>
    /\ extracted.err = ""
    /\ StrictlyAscending(extracted.val)
    /\ \A n \in 1..Len(extracted.val) :
         extracted.val[n] # << >> /\ extracted.val[n] \in NonEmptyLines
    /\ \A line \in NonEmptyLines :
         \E n \in 1..Len(extracted.val) : PathEq(extracted.val[n], line)
    /\ ~SectionOfProg.found => extracted.val = << >>

(***************************************************************************)
(* Properties of the extraction from an archive                            *)
(***************************************************************************)
\* the members of the archive the last extraction read
MembersRead == FilesAt(observed.members)

\* the paths embed was called with for this object, in absolute form
EmbeddedIn(file) ==
  { AbsoluteForm(file.given[1][j]) : j \in 1..Len(file.given[1]) }

\* the same members in the opposite order
Reversed(order) == [ n \in 1..Len(order) |-> order[Len(order) + 1 - n] ]

\* C21: the paths extracted from an archive are the sorted, duplicate-free
\* union of the paths embedded in its members, they are the same for the
\* members in the opposite order, and for members that can be linked they
\* are the paths extracted from the artifact linked from them.
C21_ArchiveUnion ==
  ( observed.path = "lib.a" /\ extracted.err = "" ) =>
    /\ StrictlyAscending(extracted.val)
    /\ Range(extracted.val)
         = UNION { EmbeddedIn(MembersRead[n]) : n \in 1..Len(MembersRead) }
    /\ extracted = extract_from_archive(FilesAt(Reversed(observed.members)))
    /\ Linkable(MembersRead) =>
         extracted = extract_bitcode_filepaths_from_object_file(LinkedArtifact(MembersRead))

(***************************************************************************)
(* Actions: partial_link_bitcode_files                                     *)
(***************************************************************************)
notMergeVars == << argv, config, args, is_parse_args_called, i, pc, command,
                   log, artifacts, k, object_filepaths, src_bitcode_filepath, ret,
                   objectVars, derived, cache, build, copied >>

\* the files of the output directory: the per-group temporary file
\* <stem>_partial_<idx>.bc and the output <stem>.bc
Intermediate(idx) == << "partial", idx >>
Output == << "output", 0 >>

\* the temporary files of the call
Intermediates == { Intermediate(idx) : idx \in 0..(Len(merge.groups) - 1) }

\* the files a run of llvm-link can leave at its output path: the output
\* when it exits with 0, nothing when it was not started or exits with
\* another code, the output or nothing when it is killed while writing
OutputsLeft(status, output) ==
  CASE status = 0         -> { { output } }
    [] status = Signalled -> { {}, { output } }
    [] OTHER              -> { {} }

\* partial_link_bitcode_files up to the first subprocess: the grouping
PartialLinkCall ==
  /\ merge.pc = "idle"
  /\ \E bitcode_filepaths \in SeqsUpTo(BitcodeFiles, MaxBitcodeFiles) :
       LET groups == group_by_parent_dir(bitcode_filepaths)
       IN merge' = [ merge EXCEPT
                       !.pc = IF Len(groups) <= 1 THEN "full" ELSE "group",
                       !.groups = groups ]
  /\ UNCHANGED notMergeVars

\* a single group: the fall back to link_bitcode_files on all paths
FullLink ==
  /\ merge.pc = "full"
  /\ \E status \in Statuses :
     \E left \in OutputsLeft(status, Output) :
       merge' = [ merge EXCEPT !.pc = "returned",
                               !.disk = merge.disk \cup left,
                               !.result = link_bitcode_files(status) ]
  /\ UNCHANGED notMergeVars

\* one iteration of the loop over the groups
GroupLink ==
  /\ merge.pc = "group"
  /\ merge.idx < Len(merge.groups)
  /\ \E status \in Statuses :
     \E left \in OutputsLeft(status, Intermediate(merge.idx)) :
       LET result == link_bitcode_files(status)
           disk   == merge.disk \cup left
       IN merge' =
            IF result.kind = "Err"
              THEN [ merge EXCEPT !.pc = "returned", !.disk = disk, !.result = result ]
            ELSE IF is_some_and_nonzero(result)
              THEN [ merge EXCEPT !.pc = "returned",
                                  !.disk = cleanup_files(disk, merge.intermediate_files),
                                  !.result = result ]
            ELSE [ merge EXCEPT
                     !.pc = IF merge.idx + 1 < Len(merge.groups) THEN "group" ELSE "final",
                     !.disk = disk,
                     !.idx = merge.idx + 1,
                     !.intermediate_files =
                        Append(merge.intermediate_files, Intermediate(merge.idx)) ]
  /\ UNCHANGED notMergeVars

\* the final link of the per-group files, and the cleanup
FinalLink ==
  /\ merge.pc = "final"
  /\ \E status \in Statuses :
     \E left \in OutputsLeft(status, Output) :
       merge' = [ merge EXCEPT
                    !.pc = "returned",
                    !.disk = cleanup_files(merge.disk \cup left, merge.intermediate_files),
                    !.result = link_bitcode_files(status) ]
  /\ UNCHANGED notMergeVars

InitMerge ==
  /\ argv = << >>
  /\ config = [ is_configure_only |-> FALSE, lto_ldflags |-> << >> ]
  /\ InitRest
  /\ ObjectRest

NextMerge ==
  \/ PartialLinkCall
  \/ FullLink
  \/ GroupLink
  \/ FinalLink

SpecMerge == InitMerge /\ [][NextMerge]_vars

\* C22: after partial_link_bitcode_files returned, with Ok or with Err, no
\* per-group temporary file of the call is on disk.
C22_TemporariesCleaned ==
  merge.pc = "returned" => merge.disk \cap Intermediates = {}

(***************************************************************************)
(* Actions: derive_object_and_bitcode_filepath                             *)
(***************************************************************************)
notDerivedVars == << argv, config, args, is_parse_args_called, i, pc, command,
                     log, artifacts, k, object_filepaths, src_bitcode_filepath, ret,
                     objectVars, merge, cache, build, copied >>

\* one call, on any path and in either mode
DeriveCall ==
  /\ derived.pc = "idle"
  /\ \E src_filepath \in SeqsUpTo(PathChars, MaxPathLen), is_compile_only \in BOOLEAN :
       derived' = [ pc              |-> "returned",
                    src_filepath    |-> src_filepath,
                    is_compile_only |-> is_compile_only,
                    result          |-> DeriveFromPath(src_filepath, is_compile_only) ]
  /\ UNCHANGED notDerivedVars

InitPaths ==
  /\ argv = << >>
  /\ config = [ is_configure_only |-> FALSE, lto_ldflags |-> << >> ]
  /\ InitRest
  /\ ObjectRest

NextPaths ==
  \/ DeriveCall

SpecPaths == InitPaths /\ [][NextPaths]_vars

(***************************************************************************)
(* Properties of the derived paths                                         *)
(***************************************************************************)
\* the name n is the name s followed by a dot and an extension without dots
IsStemOf(s, n) ==
  /\ s # << >>
  /\ Len(n) > Len(s)
  /\ SubSeq(n, 1, Len(s)) = s
  /\ n[Len(s) + 1] = "."
  /\ \A j \in (Len(s) + 2)..Len(n) : n[j] # "."

\* the stem of a file name: the name without its extension, the name
\* itself when it has none
StemOf(n) ==
  IF \E s \in { SubSeq(n, 1, j) : j \in 1..Len(n) } : IsStemOf(s, n)
    THEN CHOOSE s \in { SubSeq(n, 1, j) : j \in 1..Len(n) } : IsStemOf(s, n)
    ELSE n

\* the path has a parent directory and a file name
HasParentAndName(p) ==
  /\ Components(p) # << >>
  /\ Components(p)[Len(Components(p))] # << ".", "." >>

\* C23: for an absolute source path with parent directory d, file name n and
\* stem s the call returns the object path d/(n + ".o") in compile-only mode
\* and d/("." + s + ".o") otherwise, and the bitcode path d/("." + s + ".o.bc")
\* in both; for a path that is not absolute it returns InvalidArguments.
C23_DerivedPaths ==
  derived.pc = "returned" =>
    LET p == derived.src_filepath
        c == Components(p)
        d == SubSeq(c, 1, Len(c) - 1)
        n == c[Len(c)]
        s == StemOf(n)
    IN /\ ( is_absolute(p) /\ HasParentAndName(p) ) =>
            /\ derived.result.err = ""
            /\ derived.result.val.object =
                 Append(d, IF derived.is_compile_only
                             THEN n \o << ".", "o" >>
                             ELSE << "." >> \o s \o << ".", "o" >>)
            /\ derived.result.val.bitcode =
                 Append(d, << "." >> \o s \o << ".", "o", ".", "b", "c" >>)
       /\ ~is_absolute(p) => derived.result.err = "InvalidArguments"

\* a compile-only call on /a.c returned
C23_Witness ==
  /\ derived.pc = "returned"
  /\ derived.src_filepath = << "/", "a", ".", "c" >>
  /\ derived.is_compile_only
  /\ derived.result = Value("", [ object  |-> << << "a", ".", "c", ".", "o" >> >>,
                                  bitcode |-> << << ".", "a", ".", "o", ".", "b", "c" >> >> ])

(***************************************************************************)
(* Actions: compute_cache_key                                              *)
(***************************************************************************)
notCacheVars == << argv, config, args, is_parse_args_called, i, pc, command,
                   log, artifacts, k, object_filepaths, src_bitcode_filepath, ret,
                   objectVars, merge, derived, build, copied >>

\* the bitcode-generation flags of the configuration
ConfiguredFlags ==
  { None, Some(<< >>), Some(<< "-g", "-O2" >>), Some(<< "-O2", "-g" >>) }

\* one call of the two that are compared: any source file, readable with
\* some content or not readable, any compile arguments in any order, any
\* configured flags
ComputeCacheKey ==
  /\ Len(cache) < 2
  /\ \E src_filepath \in { "/a.c", "/b.c" },
        read \in { Some(c) : c \in SourceContents } \cup { None },
        compile_args \in SeqsUpTo(CacheArgs, MaxCacheArgs),
        bitcode_generation_flags \in ConfiguredFlags :
       cache' = Append(cache,
                  [ src_filepath |-> src_filepath,
                    read         |-> read,
                    compile_args |-> compile_args,
                    bitcode_generation_flags |-> bitcode_generation_flags,
                    result       |-> compute_cache_key(read, compile_args,
                                                       bitcode_generation_flags) ])
  /\ UNCHANGED notCacheVars

InitCache ==
  /\ argv = << >>
  /\ config = [ is_configure_only |-> FALSE, lto_ldflags |-> << >> ]
  /\ InitRest
  /\ ObjectRest

NextCache ==
  \/ ComputeCacheKey

SpecCache == InitCache /\ [][NextCache]_vars

(***************************************************************************)
(* Properties of the cache key                                             *)
(***************************************************************************)
\* how often x occurs in the sequence s
Count(s, x) == Cardinality({ n \in 1..Len(s) : s[n] = x })

\* the two sequences are the same multiset
SameMultiset(s, t) == \A x \in Range(s) \cup Range(t) : Count(s, x) = Count(t, x)

\* the two calls read the same content and were given the same arguments
\* and flags, in any order
SameInputs(c1, c2) ==
  /\ c1.read.some /\ c2.read.some
  /\ c1.read.val = c2.read.val
  /\ SameMultiset(c1.compile_args, c2.compile_args)
  /\ c1.bitcode_generation_flags.some = c2.bitcode_generation_flags.some
  /\ SameMultiset(c1.bitcode_generation_flags.val, c2.bitcode_generation_flags.val)

notBuildVars == << argv, config, args, is_parse_args_called, i, pc, command,
                   log, artifacts, k, object_filepaths, src_bitcode_filepath, ret,
                   objectVars, merge, derived, cache, copied >>

\* the canonical paths of the source files
CanonicalSources ==
  { p \in SeqsUpTo(PathChars, MaxPathLen) : IsCanonical(p) /\ FileName(p).some }

\* the configuration the invocations of the build share
ConfigureStore ==
  /\ build.procs = << >>
  /\ ~build.has_store
  /\ build' = [ build EXCEPT !.has_store = TRUE ]
  /\ UNCHANGED notBuildVars

\* the build system starts an invocation on a source no running invocation
\* has: artifact_filepaths for its one input
StartInvocation ==
  /\ Len(build.procs) < 2
  /\ \E src_filepath \in CanonicalSources, is_compile_only \in BOOLEAN :
       /\ \A n \in 1..Len(build.procs) : build.procs[n].src_filepath # src_filepath
       /\ build' = [ build EXCEPT !.procs =
            Append(build.procs,
                   [ src_filepath    |-> src_filepath,
                     is_compile_only |-> is_compile_only,
                     artifact        |-> ArtifactOf(src_filepath, is_compile_only,
                                                    build.has_store).val ]) ]
  /\ UNCHANGED notBuildVars

InitBuild ==
  /\ argv = << >>
  /\ config = [ is_configure_only |-> FALSE, lto_ldflags |-> << >> ]
  /\ InitRest
  /\ ObjectRest

NextBuild ==
  \/ ConfigureStore
  \/ StartInvocation

SpecBuild == InitBuild /\ [][NextBuild]_vars

(***************************************************************************)
(* Properties of concurrent invocations                                    *)
(***************************************************************************)
\* the files an invocation writes
FilesOf(proc) == { proc.artifact.object, proc.artifact.bitcode }

\* C25: two invocations running on different canonical source paths write
\* no file in common: object path and bitcode path of the one differ from
\* those of the other, with and without a bitcode store.
C25_DistinctArtifacts ==
  \A m \in 1..Len(build.procs), n \in 1..Len(build.procs) :
    m # n => FilesOf(build.procs[m]) \cap FilesOf(build.procs[n]) = {}

(***************************************************************************)
(* Properties of the files of one invocation                               *)
(***************************************************************************)
\* the files the native build writes when it succeeds, as file names in the
\* directory of the sources: with -c the -o output, or one <stem>.o for
\* every source; without -c the -o output, or a.out
NativeOutputs ==
  IF args.output_filename # "" THEN { Chars[args.output_filename] }
  ELSE IF args.is_compile_only
    THEN { FileStem(Chars[args.input_files[n]]) \o << ".", "o" >> :
             n \in 1..Len(args.input_files) }
  ELSE { << "a", ".", "o", "u", "t" >> }

\* the files the compiler subprocesses wrote before step j was started
WrittenBefore(j) ==
  UNION { CASE log[f].status # 0        -> {}
            [] log[f].mode = "native"   -> NativeOutputs
            [] log[f].mode = "object"   -> { artifacts[log[f].input].object }
            [] log[f].mode = "bitcode"  -> { artifacts[log[f].input].bitcode }
            [] OTHER                    -> {}
          : f \in 1..(j - 1) }

\* C26: the object file of every embed step was written by an earlier
\* compiler subprocess of the invocation: the intermediate object of that
\* input, or in compile-only mode the object the native build produced.
C26_EmbedTargetWasBuilt ==
  \A j \in 1..Len(log) :
    log[j].mode = "embed" =>
      artifacts[log[j].input].object \in WrittenBefore(j)

(***************************************************************************)
(* Properties of the classifier: no token is lost                          *)
(***************************************************************************)
\* the verbs that only set a mode bit
ModeVerbs == { "preprocess_only", "assemble_only", "verbose", "print_only",
               "compile_only", "emit_llvm", "lto" }

\* the record after the step holds the token t once more than before in one
\* of its sequences, or as the output file name
Recorded(t, before, after) ==
  \/ Count(after.input_files, t) > Count(before.input_files, t)
  \/ Count(after.object_files, t) > Count(before.object_files, t)
  \/ Count(after.compile_args, t) > Count(before.compile_args, t)
  \/ Count(after.link_args, t) > Count(before.link_args, t)
  \/ Count(after.forbidden_flags, t) > Count(before.forbidden_flags, t)
  \/ after.output_filename = t

\* C27: every token a step of the scan consumes is recorded in input_files,
\* object_files, output_filename, compile_args, link_args or
\* forbidden_flags, or is a mode flag (or -o) whose effect is in the record,
\* or is a default_binary flag or its parameter; the token after a flag
\* with a unary handler, such as -P, is not dropped.
C27_NoTokenLost ==
  [][ (pc = "parse_loop" /\ i' > i) =>
        LET flag == args.input_args[i + 1]
            verb == VerbOf(flag).handler
        IN \A j \in (i + 1)..i' :
             \/ Recorded(args.input_args[j], args, args')
             \/ j = i + 1 /\ verb \in ModeVerbs
             \/ j = i + 1 /\ verb = "output_file"
                          /\ args'.output_filename = args.input_args[j + 1]
             \/ verb = "default_binary"
    ]_vars

(***************************************************************************)
(* Actions: copy_object_file on symbols, relocations and COMDAT groups     *)
(***************************************************************************)
notCopiedVars == << argv, config, args, is_parse_args_called, i, pc, command,
                    log, artifacts, k, object_filepaths, src_bitcode_filepath, ret,
                    objectVars, merge, derived, cache, build >>

\* embed on a relocatable object with any symbols, at most one relocation
\* and at most one COMDAT group
CopyObjectFile ==
  /\ copied.pc = "idle"
  /\ \E metadata \in [ SectionIndices -> BOOLEAN ],
        symbols \in SeqsUpTo([ section : SymbolSections, flags : SymbolFlagsOf ],
                             MaxSymbols) :
     \E relocation \in [ section : { 0 } \cup SectionIndices,
                         target : RelocationTargets(symbols) ],
        comdat \in [ symbol : 0..Len(symbols), section : SectionIndices ] :
       LET in_object == [ metadata |-> metadata, symbols |-> symbols,
                          relocation |-> relocation, comdat |-> comdat ]
       IN copied' = [ pc        |-> "returned",
                      in_object |-> in_object,
                      result    |-> CopyReferences(in_object) ]
  /\ UNCHANGED notCopiedVars

InitCopy ==
  /\ argv = << >>
  /\ config = [ is_configure_only |-> FALSE, lto_ldflags |-> << >> ]
  /\ InitRest
  /\ ObjectRest

NextCopy ==
  \/ CopyObjectFile

SpecCopy == InitCopy /\ [][NextCopy]_vars

(***************************************************************************)
(* Properties of the copied symbols and relocations                        *)
(***************************************************************************)
\* the sections and symbols of the output, by their index in the input
SectionsPresent == OutSections(copied.in_object)
SymbolsPresent == OutSymbols(copied.result.symbols)

\* C28: embed on a relocatable object ends with Ok or with an error value,
\* never with a panic, whatever its symbols, relocations and COMDAT groups
\* refer to; and what it wrote refers to sections and symbols of the output
\* only.
C28_ReferencesResolved ==
  copied.pc = "returned" =>
    /\ copied.result.status \in { "Ok", "InvalidArguments" }
    /\ copied.result.status = "Ok" =>
         /\ \A n \in 1..Len(copied.result.symbols) :
              LET s == copied.result.symbols[n]
              IN /\ s.section.tag = "Section" => s.section.index \in SectionsPresent
                 /\ s.flags.associative_section # 0 =>
                      s.flags.associative_section \in SectionsPresent
         /\ \A n \in 1..Len(copied.result.relocations) :
              LET r == copied.result.relocations[n]
              IN /\ r.section \in SectionsPresent
                 /\ r.target.tag = "Symbol" => r.target.index \in SymbolsPresent
                 /\ r.target.tag = "Section" => r.target.index \in SectionsPresent
         /\ \A n \in 1..Len(copied.result.comdats) :
              /\ copied.result.comdats[n].symbol \in SymbolsPresent
              /\ copied.result.comdats[n].section \in SectionsPresent

(***************************************************************************)
(* Properties of an invocation without an output path                      *)
(***************************************************************************)
\* the native build and every step after it succeeded, and every input
\* file went through its embed
AllStepsSucceeded ==
  /\ Len(log) >= 1
  /\ log[1].mode = "native"
  /\ \A j \in 1..Len(log) : log[j].status = 0
  /\ \A n \in 1..Len(args.input_files) :
       \E j \in 1..Len(log) : Succeeded(j, "embed", n)

\* C29: an invocation that is not compile-only, has at least one input
\* file and no output file name ends with exit code 0 when the native
\* build, every intermediate-object build, every bitcode generation and
\* every embed succeeded.
C29_NoOutputPathSucceeds ==
  ( /\ pc = "done"
    /\ ~args.is_compile_only
    /\ Len(args.input_files) >= 1
    /\ args.output_filename = ""
    /\ AllStepsSucceeded )
    => ExitCode(ret) = 0

(***************************************************************************)
(* Actions: several calls of parse_args on one ClangWrapper                *)
(***************************************************************************)
\* the argument lists of the calls
CallArgvs ==
  { << >>, << "a.c" >>, << "-o" >>, << "-o", "prog" >>, << "b.o", "-m64" >>,
    << "-P", "a.c" >>, << "prog" >>, << "b.o" >>, << "-I", "prog", "a.c" >>,
    << "-Wl,--start-group", "b.o" >> }

\* parse_args has returned an Ok or an Err, and the caller calls it again on
\* the same instance
CallAgain ==
  /\ pc \in { "done", "build_target" }
  /\ ret.kind # "panic"
  /\ \E a \in CallArgvs : argv' = a
  /\ pc' = "parse_args"
  /\ ret' = Running
  /\ UNCHANGED << objectVars, toolVars, config, args, is_parse_args_called, i,
                  driverVars >>

InitCalls ==
  /\ argv \in CallArgvs
  /\ config = [ is_configure_only |-> FALSE, lto_ldflags |-> << >> ]
  /\ InitRest
  /\ ObjectRest

NextCalls ==
  \/ ParseArgsCall
  \/ ParseArgsStep
  \/ ParseArgsReturn
  \/ CallAgain

SpecCalls == InitCalls /\ [][NextCalls]_vars

(***************************************************************************)
(* Properties of repeated calls of parse_args                              *)
(***************************************************************************)
\* C30: over the calls of parse_args on one wrapper, a call with no
\* arguments returns InvalidArguments and changes nothing; a call with
\* arguments enters the classifier only if none did before, and marks the
\* wrapper, which stays marked whatever the classifier returns; every later
\* call with arguments returns the Unknown error and leaves the stored
\* arguments as they were.
C30_SingleParse ==
  [][ /\ (pc = "parse_args" /\ argv = << >>) =>
           /\ pc' = "done"
           /\ ret' = Err("InvalidArguments")
           /\ is_parse_args_called' = is_parse_args_called
           /\ args' = args
      /\ (pc = "parse_args" /\ argv # << >> /\ ~is_parse_args_called) =>
           /\ pc' = "parse_loop"
           /\ is_parse_args_called'
      /\ (pc = "parse_args" /\ argv # << >> /\ is_parse_args_called) =>
           /\ pc' = "done"
           /\ ret' = Err("Unknown")
           /\ args' = args
      /\ (pc # "parse_loop" /\ pc' = "parse_loop") =>
           pc = "parse_args" /\ ~is_parse_args_called
      /\ is_parse_args_called => is_parse_args_called'
    ]_vars

\* a later call with other arguments has returned the Unknown error after a
\* first call whose classification had failed at its only argument: the
\* stored arguments are what that call left
C30_Witness ==
  /\ pc = "done"
  /\ ret = Err("Unknown")
  /\ is_parse_args_called
  /\ argv = << "-o", "prog" >>
  /\ args = [ DefaultArgsInfo EXCEPT !.input_args = << "prog" >> ]
====
